---- MODULE Spec2Model ----
(***************************************************************************)
(* A model of the turn-based dungeon core: the Action hierarchy            *)
(* (actions.py), the turn engine (engine.py), the spatial map              *)
(* (game_map.py) and the entity data (entity.py).                          *)
(*                                                                         *)
(* The world is kept in one record per call chain: every perform method    *)
(* is an operator from a world record to a world record, so that a handler *)
(* that calls other methods is the composition of their operators.  The    *)
(* record fields "ret" and "exc" carry the value a method returned and the *)
(* exception it raised.                                                    *)
(***************************************************************************)
EXTENDS Integers, Sequences, FiniteSets, TLC

VARIABLES
    pos,            \* Entity.x, Entity.y of every entity
    hp,             \* Fighter.hp of every entity with a fighter
    entities,       \* GameMap.entities: the live set of the active map
    items,          \* Inventory.items of every entity (a list)
    equipped,       \* Equipment slots of every entity
    parent,         \* Entity.parent of every item
    path,           \* ai.path of every entity with an AI
    message_log,    \* Engine.message_log: a list of (text, colour)
    current_floor,  \* Engine.current_floor
    visible,        \* GameMap.visible
    explored,       \* GameMap.explored
    game_state,     \* Engine.game_state / the session's fate
    caps,           \* the optional components the player was built with
    fov_calls,      \* number of GameMap.compute_fov calls so far
    ai_turns,       \* number of ai.perform calls so far, per entity
    maps_made,      \* number of maps generate_dungeon has delivered so far
    pending         \* the action event_handler.get_action() last returned

vars == <<pos, hp, entities, items, equipped, parent, path, message_log,
          current_floor, visible, explored, game_state, caps, fov_calls,
          ai_turns, maps_made, pending>>

None == "None"

(***************************************************************************)
(* Bounds of the exploration.                                              *)
(***************************************************************************)
\* No new player action is taken once the log holds this many messages.
MaxLog == 3

(***************************************************************************)
(* The entities of the scenario and their fixed attributes.                *)
(***************************************************************************)
Player == "player"
Monsters == {"orc", "troll", "bat"}
Structures == {"statue"}
Remains == {"corpse"}
Items == {"potion", "dagger", "sword"}
AllEntities == {Player} \cup Monsters \cup Structures \cup Remains \cup Items

\* Entity.blocks_movement: actors and structures block, items do not.
blocks_movement(e) == e \in {Player} \cup Monsters \cup Structures

\* Entity.fighter is set.
fighter(e) == e \in {Player} \cup Monsters

\* Entity.ai is set.
ai(e) == e \in Monsters

\* The entity counts among GameMap.actors: the player, the monsters and
\* what is left of an actor that has no fighter any more.
is_actor(e) == e \in {Player} \cup Monsters \cup Remains

\* Entity.item is set.
is_item(e) == e \in Items

\* Entity.consumable is set.
consumable(e) == e = "potion"

\* Entity.equippable is set.
equippable(e) == e \in {"dagger", "sword"}

Slots == {"weapon", "armor"}

\* Equippable: the slot of an item and its power bonus.
slot_of(it) == "weapon"
power_bonus(it) == IF it = "dagger" THEN 2 ELSE IF it = "sword" THEN 4 ELSE 0

\* Fighter(hp, defense, power) of each fighter; the player's are main.py's.
PlayerHp == 30
PlayerDefense == 2
PlayerPower == 5
max_hp(e) ==
    CASE e = Player -> PlayerHp
      [] e = "orc" -> 10
      [] e = "troll" -> 16
      [] OTHER -> 4
defense(e) ==
    CASE e = Player -> PlayerDefense
      [] e = "orc" -> 2
      [] e = "troll" -> 5
      [] OTHER -> 0
base_power(e) ==
    CASE e = Player -> PlayerPower
      [] e = "orc" -> 3
      [] e = "troll" -> 4
      [] OTHER -> 1

\* Inventory.capacity.
capacity == 2

\* The healing a potion gives.
heal_amount == 4

FOV_RADIUS == 8

(***************************************************************************)
(* The map: a width x height grid, one wall in the middle, stairs in a     *)
(* corner.                                                                 *)
(***************************************************************************)
width == 3
height == 3
Tiles == (0 .. width - 1) \X (0 .. height - 1)
Walls == {<<1, 1>>}

\* GameMap.walkable and GameMap.transparent, copied from the tile grid.
walkable(x, y) == <<x, y>> \notin Walls
transparent(x, y) == <<x, y>> \notin Walls

stairs_location == <<0, 0>>

\* GameMap.in_bounds
in_bounds(x, y) == 0 <= x /\ x < width /\ 0 <= y /\ y < height

(***************************************************************************)
(* Messages and the log.                                                   *)
(***************************************************************************)
Msg(text, who, whom, n, color) ==
    [text |-> text, who |-> who, whom |-> whom, n |-> n, color |-> color]

\* MessageLog.add_message
add_message(w, m) == [w EXCEPT !.message_log = Append(@, m)]

Raise(w, e) == [w EXCEPT !.exc = e]

(***************************************************************************)
(* Components of an entity in world w.                                     *)
(***************************************************************************)
\* Entity.inventory is set: only a player built with one has it.
has_inventory(w, e) == e = Player /\ "inventory" \in w.caps

\* Entity.equipment is set: Actor's constructor always gives one, the
\* player of main.py is a plain Entity built without.
has_equipment(w, e) == e \in Monsters \/ (e = Player /\ "equipment" \in w.caps)

\* Fighter.is_dead
is_dead(w, e) == w.hp[e] <= 0

\* Equipment.item_is_equipped
item_is_equipped(w, e, it) == \E s \in Slots : w.equipped[e][s] = it

\* Fighter.power: the base power plus the bonus of what is equipped.
power(w, e) ==
    base_power(e)
    + (IF w.equipped[e]["weapon"] = None THEN 0
       ELSE power_bonus(w.equipped[e]["weapon"]))
    + (IF w.equipped[e]["armor"] = None THEN 0
       ELSE power_bonus(w.equipped[e]["armor"]))

(***************************************************************************)
(* Queries of the map.                                                     *)
(***************************************************************************)
\* A faulty variant of the scan: it looks at the fighters alone.
get_blocking_entity_at_location_FightersOnly(w, x, y) ==
    LET found == {e \in w.entities :
                    /\ blocks_movement(e) /\ fighter(e)
                    /\ w.pos[e] = <<x, y>>}
    IN  IF found = {} THEN None ELSE CHOOSE e \in found : TRUE

\* GameMap.get_blocking_entity_at_location: the scan returns the first
\* blocking entity it meets at the location.
get_blocking_entity_at_location(w, x, y) ==
    LET found == {e \in w.entities :
                    blocks_movement(e) /\ w.pos[e] = <<x, y>>}
    IN  IF found = {} THEN None ELSE CHOOSE e \in found : TRUE

\* GameMap.get_entities_at_location
get_entities_at_location(w, x, y) ==
    {e \in w.entities : w.pos[e] = <<x, y>>}

\* GameMap.get_items_at_location: a fresh set of the items at a location.
get_items_at_location(w, x, y) ==
    {e \in get_entities_at_location(w, x, y) : is_item(e)}

\* GameMap.actors: the actors of the live set, in the order they are
\* iterated.
ActorOrder == <<"player", "orc", "troll", "bat", "corpse">>
IsLive(w, e) == e \in w.entities /\ is_actor(e)
actors(w) == SelectSeq(ActorOrder, LAMBDA e : IsLive(w, e))

\* GameMap.get_actor_at_location
get_actor_at_location(w, x, y) ==
    LET found == SelectSeq(actors(w), LAMBDA e : w.pos[e] = <<x, y>>)
    IN  IF found = <<>> THEN None ELSE Head(found)

\* Entity.distance(x, y) <= r, for integers: sqrt(d2) <= r iff r >= 0 and
\* d2 <= r * r.
distance_le(w, e, x, y, r) ==
    LET ddx == w.pos[e][1] - x
        ddy == w.pos[e][2] - y
    IN  r >= 0 /\ ddx * ddx + ddy * ddy <= r * r

(***************************************************************************)
(* Field of view.                                                          *)
(***************************************************************************)
\* Tile b lies strictly between tiles a and c on the segment joining their
\* centres.
StrictlyBetween(a, b, c) ==
    /\ b # a /\ b # c
    /\ (b[1] - a[1]) * (c[2] - a[2]) = (b[2] - a[2]) * (c[1] - a[1])
    /\ (b[1] - a[1]) * (c[1] - b[1]) >= 0
    /\ (b[2] - a[2]) * (c[2] - b[2]) >= 0

\* tcod.map.compute_fov(transparency, pov, radius, light_walls=True,
\* FOV_SYMMETRIC_SHADOWCAST): a tile within the radius is lit unless an
\* opaque tile stands between it and the point of view; walls are lit.
ComputeFov(ox, oy, radius) ==
    {t \in Tiles :
        /\ (t[1] - ox) * (t[1] - ox) + (t[2] - oy) * (t[2] - oy)
              <= radius * radius
        /\ ~ \E b \in Tiles : /\ ~ transparent(b[1], b[2])
                              /\ StrictlyBetween(<<ox, oy>>, b, t)}

\* A faulty variant of the computation: the explored layer is left alone.
compute_fov_KeepsExplored(w, player_x, player_y, radius) ==
    [w EXCEPT !.visible = ComputeFov(player_x, player_y, radius),
              !.fov_calls = @ + 1]

\* A faulty variant of the computation: the explored layer is overwritten
\* with what is visible now.
compute_fov_ResetsExplored(w, player_x, player_y, radius) ==
    [w EXCEPT !.visible = ComputeFov(player_x, player_y, radius),
              !.explored = ComputeFov(player_x, player_y, radius),
              !.fov_calls = @ + 1]

\* GameMap.compute_fov
compute_fov(w, player_x, player_y, radius) ==
    LET vis == ComputeFov(player_x, player_y, radius)
    IN  [w EXCEPT !.visible = vis,
                  !.explored = @ \cup vis,
                  !.fov_calls = @ + 1]

\* Engine.update_fov
update_fov(w) == compute_fov(w, w.pos[Player][1], w.pos[Player][2], FOV_RADIUS)

(***************************************************************************)
(* Components that live outside the action module.                         *)
(***************************************************************************)
\* Equipment.toggle_equip(item, add_message): unequip the item if it is in
\* its slot; otherwise unequip what the slot holds and equip the item.
unequip_from_slot(w, e, s, add) ==
    LET cur == w.equipped[e][s]
        w1 == IF add
              THEN add_message(w, Msg("You remove the {}.", e, cur, 0, "white"))
              ELSE w
    IN  [w1 EXCEPT !.equipped[e][s] = None]

equip_to_slot(w, e, s, it, add) ==
    LET w1 == IF w.equipped[e][s] # None
              THEN unequip_from_slot(w, e, s, add)
              ELSE w
        w2 == [w1 EXCEPT !.equipped[e][s] = it]
    IN  IF add
        THEN add_message(w2, Msg("You equip the {}.", e, it, 0, "white"))
        ELSE w2

toggle_equip(w, e, it, add) ==
    IF w.equipped[e][slot_of(it)] = it
    THEN unequip_from_slot(w, e, slot_of(it), add)
    ELSE equip_to_slot(w, e, slot_of(it), it, add)

\* The sequence s without its first occurrence of x.
RECURSIVE RemoveFirst(_, _)
RemoveFirst(s, x) ==
    IF s = <<>> THEN <<>>
    ELSE IF Head(s) = x THEN Tail(s)
    ELSE <<Head(s)>> \o RemoveFirst(Tail(s), x)

InSeq(s, x) == \E i \in 1 .. Len(s) : s[i] = x

\* Inventory.drop(item): list.remove, then the item is placed on the map at
\* the owner's tile.
drop(w, e, it) ==
    IF ~ InSeq(w.items[e], it) THEN Raise(w, "ValueError")
    ELSE [w EXCEPT !.items[e] = RemoveFirst(@, it),
                   !.pos[it] = w.pos[e],
                   !.entities = @ \cup {it},
                   !.parent[it] = "map"]

\* Consumable.activate(action) of a healing potion: heal the consumer up to
\* its maximum and consume the potion; refuse at full health.
activate(w, e, it) ==
    LET new_hp == IF w.hp[e] + heal_amount > max_hp(e)
                  THEN max_hp(e) ELSE w.hp[e] + heal_amount
        recovered == new_hp - w.hp[e]
        owner == w.parent[it]
    IN  IF recovered > 0
        THEN LET w1 == add_message(w,
                         Msg("You consume the {}, and recover {} HP!",
                             e, it, recovered, "health_recovered"))
                 w2 == [w1 EXCEPT !.hp[e] = new_hp]
             IN  IF owner # "map"
                 THEN [w2 EXCEPT !.items[owner] = RemoveFirst(@, it),
                                 !.parent[it] = "map"]
                 ELSE w2
        ELSE [w EXCEPT !.exc = "ImpossibleAction",
                       !.exc_text = "Your health is already full."]

(***************************************************************************)
(* actions.py                                                              *)
(***************************************************************************)
\* WaitAction.perform
WaitAction(w, e) == w

\* EscapeAction.perform
EscapeAction(w, e) == Raise(w, "SystemExit")

\* ActionWithDirection.dest_xy
dest_xy(w, e, dx, dy) == <<w.pos[e][1] + dx, w.pos[e][2] + dy>>

\* ActionWithDirection.blocking_entity
blocking_entity(w, e, dx, dy) ==
    get_blocking_entity_at_location(w, dest_xy(w, e, dx, dy)[1],
                                    dest_xy(w, e, dx, dy)[2])

\* A faulty variant of the attack: the damage is applied whatever its sign.
Attack_HitsRegardless(w, e, target) ==
    LET damage == power(w, e) - defense(target)
        attack_color == IF e = Player THEN "player_atk" ELSE "enemy_atk"
    IN  IF target = None \/ ~ fighter(target)
        THEN add_message(w, Msg("Nothing to attack.", None, None, 0,
                                "impossible"))
        ELSE [add_message(w, Msg("{} attacks {} for {} hit points.",
                                 e, target, damage, attack_color))
                EXCEPT !.hp[target] = @ - damage]

\* A faulty variant of the attack: the blow is logged and applied twice.
Attack_DoubleHit(w, e, target) ==
    LET damage == power(w, e) - defense(target)
        attack_color == IF e = Player THEN "player_atk" ELSE "enemy_atk"
    IN  IF target = None \/ ~ fighter(target)
        THEN add_message(w, Msg("Nothing to attack.", None, None, 0,
                                "impossible"))
        ELSE IF damage > 0
        THEN [add_message(
                 add_message(w, Msg("{} attacks {} for {} hit points.",
                                    e, target, damage, attack_color)),
                 Msg("{} attacks {} for {} hit points.",
                     e, target, damage, attack_color))
                EXCEPT !.hp[target] = @ - damage - damage]
        ELSE add_message(w, Msg("{} attacks {} but does no damage.",
                                e, target, 0, attack_color))

\* MeleeAction.perform, once the target is resolved.
Attack(w, e, target) ==
    LET damage == power(w, e) - defense(target)
        attack_color == IF e = Player THEN "player_atk" ELSE "enemy_atk"
    IN  IF target = None \/ ~ fighter(target)
        THEN add_message(w, Msg("Nothing to attack.", None, None, 0,
                                "impossible"))
        ELSE IF ~ fighter(e) THEN Raise(w, "AttributeError")
        ELSE IF damage > 0
        THEN [add_message(w, Msg("{} attacks {} for {} hit points.",
                                 e, target, damage, attack_color))
                EXCEPT !.hp[target] = @ - damage]
        ELSE add_message(w, Msg("{} attacks {} but does no damage.",
                                e, target, 0, attack_color))

\* MeleeAction.perform
MeleeAction(w, e, dx, dy) == Attack(w, e, blocking_entity(w, e, dx, dy))

\* A faulty variant of the step: it is taken twice over.
move_Twice(w, e, dx, dy) ==
    [w EXCEPT !.pos[e] = <<w.pos[e][1] + 2 * dx, w.pos[e][2] + 2 * dy>>]

\* Entity.move
move(w, e, dx, dy) ==
    [w EXCEPT !.pos[e] = <<w.pos[e][1] + dx, w.pos[e][2] + dy>>]

Blocked(w) ==
    add_message(w, Msg("That way is blocked.", None, None, 0, "impossible"))

\* A faulty variant of the move: blocking entities are not looked for.
MovementAction_NoEntityCheck(w, e, dx, dy) ==
    LET d == dest_xy(w, e, dx, dy)
    IN  IF ~ in_bounds(d[1], d[2]) THEN Blocked(w)
        ELSE IF ~ walkable(d[1], d[2]) THEN Blocked(w)
        ELSE move(w, e, dx, dy)

\* MovementAction.perform
MovementAction(w, e, dx, dy) ==
    LET d == dest_xy(w, e, dx, dy)
    IN  IF ~ in_bounds(d[1], d[2]) THEN Blocked(w)
        ELSE IF ~ walkable(d[1], d[2]) THEN Blocked(w)
        ELSE IF get_blocking_entity_at_location(w, d[1], d[2]) # None
        THEN Blocked(w)
        ELSE move(w, e, dx, dy)

\* A faulty variant of the bump: it never attacks.
BumpAction_AlwaysMoves(w, e, dx, dy) == MovementAction(w, e, dx, dy)

\* BumpAction.perform
BumpAction(w, e, dx, dy) ==
    IF blocking_entity(w, e, dx, dy) # None
    THEN MeleeAction(w, e, dx, dy)
    ELSE MovementAction(w, e, dx, dy)

\* A faulty variant of the pickup: the item stays in the map's entity set.
PickupAction_KeepsOnMap(w, e, pick) ==
    IF get_items_at_location(w, w.pos[e][1], w.pos[e][2]) = {}
    THEN add_message(w, Msg("There is nothing here to pick up.", None, None,
                            0, "impossible"))
    ELSE IF has_inventory(w, e)
    THEN add_message([w EXCEPT !.items[e] = Append(@, pick),
                               !.parent[pick] = e],
                     Msg("You picked up the {}!", e, pick, 0, "item_pickup"))
    ELSE add_message(w, Msg("{} cannot pick things up.", e, None, 0,
                            "impossible"))

\* A faulty variant of the pickup: the inventory is not checked for.
PickupAction_NoInventoryCheck(w, e, pick) ==
    IF get_items_at_location(w, w.pos[e][1], w.pos[e][2]) = {}
    THEN add_message(w, Msg("There is nothing here to pick up.", None, None,
                            0, "impossible"))
    ELSE add_message([w EXCEPT !.items[e] = Append(@, pick),
                               !.entities = @ \ {pick},
                               !.parent[pick] = e],
                     Msg("You picked up the {}!", e, pick, 0, "item_pickup"))

\* A faulty variant of the pickup: every item of the tile leaves the map.
PickupAction_TakesAll(w, e, pick) ==
    LET here == get_items_at_location(w, w.pos[e][1], w.pos[e][2])
    IN  IF here = {}
        THEN add_message(w, Msg("There is nothing here to pick up.", None,
                                None, 0, "impossible"))
        ELSE IF has_inventory(w, e)
        THEN add_message([w EXCEPT !.items[e] = Append(@, pick),
                                   !.entities = @ \ here,
                                   !.parent[pick] = e],
                         Msg("You picked up the {}!", e, pick, 0,
                             "item_pickup"))
        ELSE add_message(w, Msg("{} cannot pick things up.", e, None, 0,
                                "impossible"))

\* PickupAction.perform; pick is the item items_at_location.pop() yields.
\* The capacity check of the source is commented out and so is absent here.
PickupAction(w, e, pick) ==
    IF get_items_at_location(w, w.pos[e][1], w.pos[e][2]) = {}
    THEN add_message(w, Msg("There is nothing here to pick up.", None, None,
                            0, "impossible"))
    ELSE IF has_inventory(w, e)
    THEN add_message([w EXCEPT !.items[e] = Append(@, pick),
                               !.entities = @ \ {pick},
                               !.parent[pick] = e],
                     Msg("You picked up the {}!", e, pick, 0, "item_pickup"))
    ELSE add_message(w, Msg("{} cannot pick things up.", e, None, 0,
                            "impossible"))

\* A faulty variant of the use: an unusable item is refused without a word.
UseItemAction_Silent(w, e, it) ==
    IF ~ consumable(it) THEN w ELSE activate(w, e, it)

\* UseItemAction.perform
UseItemAction(w, e, it) ==
    IF ~ consumable(it)
    THEN add_message(w, Msg("You can't use the {}.", None, it, 0,
                            "impossible"))
    ELSE activate(w, e, it)

\* DropItemAction.perform, after Inventory.drop returned or raised.
Dropped(w, e, it) ==
    IF w.exc # None THEN w
    ELSE add_message(w, Msg("You dropped the {}.", e, it, 0, "item_drop"))

\* DropItemAction.perform, after the unequip.
DropFromInventory(w, e, it) ==
    IF ~ has_inventory(w, e) THEN Raise(w, "AttributeError")
    ELSE Dropped(drop(w, e, it), e, it)

\* A faulty variant of the drop: an equipped item stays in its slot.
DropItemAction_KeepsEquipped(w, e, it) == DropFromInventory(w, e, it)

\* DropItemAction.perform
DropItemAction(w, e, it) ==
    DropFromInventory(
        IF has_equipment(w, e) /\ item_is_equipped(w, e, it)
        THEN toggle_equip(w, e, it, FALSE)
        ELSE w,
        e, it)

\* A faulty variant of the equip: an equipped item is equipped again.
EquipAction_NeverUnequips(w, e, it) ==
    IF ~ has_equipment(w, e)
    THEN add_message(w, Msg("{} cannot equip items.", e, None, 0,
                            "impossible"))
    ELSE IF ~ equippable(it)
    THEN add_message(w, Msg("The {} cannot be equipped.", None, it, 0,
                            "impossible"))
    ELSE equip_to_slot(w, e, slot_of(it), it, TRUE)

\* EquipAction.perform
EquipAction(w, e, it) ==
    IF ~ has_equipment(w, e)
    THEN add_message(w, Msg("{} cannot equip items.", e, None, 0,
                            "impossible"))
    ELSE IF ~ equippable(it)
    THEN add_message(w, Msg("The {} cannot be equipped.", None, it, 0,
                            "impossible"))
    ELSE toggle_equip(w, e, it, TRUE)

(***************************************************************************)
(* The first state of a floor, as the dungeon generator delivers it.       *)
(***************************************************************************)
StartPos ==
    [e \in AllEntities |->
        CASE e = Player -> <<1, 0>>
          [] e = "orc" -> <<2, 0>>
          [] e = "troll" -> <<2, 1>>
          [] e = "bat" -> <<1, 2>>
          [] e = "statue" -> <<0, 1>>
          [] e = "corpse" -> <<0, 2>>
          [] e = "potion" -> <<1, 0>>
          [] e = "sword" -> <<1, 0>>
          [] OTHER -> <<0, 0>>]

\* procgen.generate_dungeon: a populated map with the player placed on it.
\* Items somebody carries are not on the new floor.
generate_dungeon(w) ==
    [w EXCEPT
        !.entities = {Player} \cup Monsters \cup Structures \cup Remains
                       \cup {it \in Items : w.parent[it] = "map"},
        !.pos = [e \in AllEntities |->
                    IF e \in Items /\ w.parent[e] # "map"
                    THEN w.pos[e] ELSE StartPos[e]],
        !.hp = [e \in DOMAIN w.hp |->
                    IF e = Player THEN w.hp[e] ELSE max_hp(e)],
        !.visible = {},
        !.explored = {},
        !.maps_made = @ + 1]

\* A faulty variant of the arrival on a floor: the log starts afresh.
enter_floor_ClearsLog(w, going_down) ==
    update_fov(
        add_message(
            [w EXCEPT !.message_log = <<>>,
                      !.path = [e \in DOMAIN w.path |->
                IF IsLive(w, e) /\ ai(e) THEN None ELSE w.path[e]]],
            Msg("You {}...", IF going_down THEN "descend" ELSE "ascend",
                None, 0, "descend")))

\* A faulty variant of the arrival on a floor: the cached paths are kept.
enter_floor_KeepsPaths(w, going_down) ==
    update_fov(
        add_message(w,
            Msg("You {}...", IF going_down THEN "descend" ELSE "ascend",
                None, 0, "descend")))

\* Engine.change_floor, once the new map is in place: the cached paths
\* of its actors are cleared, the message is logged, the view refreshed.
enter_floor(w, going_down) ==
    update_fov(
        add_message(
            [w EXCEPT !.path = [e \in DOMAIN w.path |->
                IF IsLive(w, e) /\ ai(e) THEN None ELSE w.path[e]]],
            Msg("You {}...", IF going_down THEN "descend" ELSE "ascend",
                None, 0, "descend")))

\* A faulty variant of the floor change: going up has no lowest floor.
change_floor_Unclamped(w, going_down) ==
    enter_floor(
        generate_dungeon(
            [w EXCEPT !.current_floor =
                IF going_down THEN @ + 1 ELSE @ - 1]),
        going_down)

\* Engine.change_floor
change_floor(w, going_down) ==
    enter_floor(
        generate_dungeon(
            [w EXCEPT !.current_floor =
                IF going_down THEN @ + 1
                ELSE IF @ - 1 > 1 THEN @ - 1 ELSE 1]),
        going_down)

\* Engine.new_game on an engine in use: the log is cleared, the floor
\* counter set to 1, the first floor generated, the gameplay state entered,
\* the welcome logged and the view computed.
new_game(w) ==
    update_fov(
        add_message(
            [generate_dungeon([w EXCEPT !.message_log = <<>>,
                                        !.current_floor = 1])
                EXCEPT !.game_state = "playing"],
            Msg("Hello and welcome, adventurer, to yet another dungeon!",
                None, None, 0, "welcome_text")))

\* A faulty variant of the stairs: the actor's tile is not looked at.
TakeStairsAction_AnyTile(w, e) ==
    add_message(change_floor(w, TRUE),
                Msg("You descend deeper into the dungeon...", None, None, 0,
                    "descend"))

\* TakeStairsAction.perform
TakeStairsAction(w, e) ==
    IF w.pos[e] = stairs_location
    THEN add_message(change_floor(w, TRUE),
                     Msg("You descend deeper into the dungeon...", None,
                         None, 0, "descend"))
    ELSE add_message(w, Msg("There are no stairs here.", None, None, 0,
                            "impossible"))

\* The second loop of AreaRangedAttackAction.perform.
RECURSIVE ApplyBlast(_, _, _)
ApplyBlast(w, hit, damage) ==
    IF hit = <<>> THEN w
    ELSE ApplyBlast(
            [add_message(w, Msg("The {} is hit for {} damage!", None,
                                Head(hit), damage, "enemy_atk"))
                EXCEPT !.hp[Head(hit)] = @ - damage],
            Tail(hit), damage)

\* A faulty variant of the blast: the target tile need not be visible.
AreaRangedAttackAction_NoVisibilityCheck(w, e, tx, ty, radius, damage) ==
    IF ~ in_bounds(tx, ty)
    THEN add_message(w, Msg("Target is out of bounds.", None, None, 0,
                            "impossible"))
    ELSE ApplyBlast(
            add_message(w, Msg("A blast explodes, engulfing the area!",
                               None, None, 0, "needs_targeting")),
            SelectSeq(actors(w), LAMBDA a :
                         distance_le(w, a, tx, ty, radius) /\ fighter(a)),
            damage)

\* A faulty variant of the blast: the caster is left out.
AreaRangedAttackAction_SparesCaster(w, e, tx, ty, radius, damage) ==
    IF ~ in_bounds(tx, ty)
    THEN add_message(w, Msg("Target is out of bounds.", None, None, 0,
                            "impossible"))
    ELSE IF <<tx, ty>> \notin w.visible
    THEN add_message(w, Msg("You cannot target an area you cannot see.",
                            None, None, 0, "impossible"))
    ELSE ApplyBlast(
            add_message(w, Msg("A blast explodes, engulfing the area!",
                               None, None, 0, "needs_targeting")),
            SelectSeq(actors(w), LAMBDA a :
                         /\ a # e
                         /\ distance_le(w, a, tx, ty, radius)
                         /\ fighter(a)),
            damage)

\* AreaRangedAttackAction.perform
AreaRangedAttackAction(w, e, tx, ty, radius, damage) ==
    IF ~ in_bounds(tx, ty)
    THEN add_message(w, Msg("Target is out of bounds.", None, None, 0,
                            "impossible"))
    ELSE IF <<tx, ty>> \notin w.visible
    THEN add_message(w, Msg("You cannot target an area you cannot see.",
                            None, None, 0, "impossible"))
    ELSE LET w1 == add_message(w, Msg("A blast explodes, engulfing the area!",
                                      None, None, 0, "needs_targeting"))
             actors_hit == SelectSeq(actors(w), LAMBDA a :
                              distance_le(w, a, tx, ty, radius) /\ fighter(a))
         IN  ApplyBlast(w1, actors_hit, damage)

\* A faulty variant of the shot: the target tile need not be visible.
SingleRangedAttackAction_NoVisibilityCheck(w, e, tx, ty, damage) ==
    LET target == get_actor_at_location(w, tx, ty)
        effective_damage == damage - defense(target)
        attack_color == IF e = Player THEN "player_atk" ELSE "enemy_atk"
    IN  IF target = None \/ ~ fighter(target)
        THEN add_message(w, Msg("You fire, but hit nothing.", None, None, 0,
                                "impossible"))
        ELSE IF effective_damage > 0
        THEN [add_message(w, Msg("{} fires at {} hitting for {} points.",
                                 e, target, effective_damage, attack_color))
                EXCEPT !.hp[target] = @ - effective_damage]
        ELSE add_message(w, Msg("{} fires at {} but it has no effect.",
                                e, target, 0, attack_color))

\* SingleRangedAttackAction.perform
SingleRangedAttackAction(w, e, tx, ty, damage) ==
    LET target == get_actor_at_location(w, tx, ty)
        effective_damage == damage - defense(target)
        attack_color == IF e = Player THEN "player_atk" ELSE "enemy_atk"
    IN  IF target = None \/ ~ fighter(target)
        THEN add_message(w, Msg("You fire, but hit nothing.", None, None, 0,
                                "impossible"))
        ELSE IF <<tx, ty>> \notin w.visible
        THEN add_message(w, Msg("You cannot target something you cannot see.",
                                None, None, 0, "impossible"))
        ELSE IF effective_damage > 0
        THEN [add_message(w, Msg("{} fires at {} hitting for {} points.",
                                 e, target, effective_damage, attack_color))
                EXCEPT !.hp[target] = @ - effective_damage]
        ELSE add_message(w, Msg("{} fires at {} but it has no effect.",
                                e, target, 0, attack_color))

(***************************************************************************)
(* The pending action, as the input layer built it.                        *)
(***************************************************************************)
Act(kind, dx, dy, it, tx, ty, radius, damage) ==
    [kind |-> kind, dx |-> dx, dy |-> dy, item |-> it, tx |-> tx, ty |-> ty,
     radius |-> radius, damage |-> damage]

NoAction == Act("None", 0, 0, None, 0, 0, 0, 0)

\* Action.perform of the pending action a, by entity e; every perform
\* method of actions.py returns None.
Perform(w, e, a) ==
    [(CASE a.kind = "Wait" -> WaitAction(w, e)
        [] a.kind = "Escape" -> EscapeAction(w, e)
        [] a.kind = "Movement" -> MovementAction(w, e, a.dx, a.dy)
        [] a.kind = "Melee" -> MeleeAction(w, e, a.dx, a.dy)
        [] a.kind = "Bump" -> BumpAction(w, e, a.dx, a.dy)
        [] a.kind = "Pickup" -> PickupAction(w, e, a.item)
        [] a.kind = "UseItem" -> UseItemAction(w, e, a.item)
        [] a.kind = "DropItem" -> DropItemAction(w, e, a.item)
        [] a.kind = "Equip" -> EquipAction(w, e, a.item)
        [] a.kind = "TakeStairs" -> TakeStairsAction(w, e)
        [] a.kind = "AreaRangedAttack" ->
             AreaRangedAttackAction(w, e, a.tx, a.ty, a.radius, a.damage)
        [] a.kind = "SingleRangedAttack" ->
             SingleRangedAttackAction(w, e, a.tx, a.ty, a.damage)
        [] OTHER -> w)
     EXCEPT !.ret = None]

\* Python's truth value of what perform returned.
Truthy(v) == v = "True"

(***************************************************************************)
(* components.ai: the hostile AI picks one action and performs it.         *)
(***************************************************************************)
Sgn(n) == IF n > 0 THEN 1 ELSE IF n < 0 THEN -1 ELSE 0
Abs(n) == IF n < 0 THEN -n ELSE n

\* What an AI does with its turn: the strategy (hostile pursuit, confusion
\* that stumbles in a direction, inert) or the way it fails.
AiChoice(mode, dx, dy) == [mode |-> mode, dx |-> dx, dy |-> dy]
Hostile == AiChoice("hostile", 0, 0)
Inert == AiChoice("inert", 0, 0)
Refused == AiChoice("refused", 0, 0)
Faulty == AiChoice("faulty", 0, 0)

\* The hostile strategy: strike the player when next to it, else step
\* towards it when in view, else wait.
HostileEnemy(w, e) ==
    LET ddx == w.pos[Player][1] - w.pos[e][1]
        ddy == w.pos[Player][2] - w.pos[e][2]
        dist == IF Abs(ddx) > Abs(ddy) THEN Abs(ddx) ELSE Abs(ddy)
    IN  IF w.pos[e] \in w.visible
        THEN IF dist <= 1 THEN MeleeAction(w, e, ddx, ddy)
             ELSE MovementAction([w EXCEPT !.path[e] = "cached"], e,
                                 Sgn(ddx), Sgn(ddy))
        ELSE WaitAction(w, e)

\* An action that takes off the map's live set every other entity of the
\* tile (dx, dy) away.
Removed(w, e, dx, dy) ==
    [w EXCEPT !.entities =
        @ \ {x \in @ : x # e /\ w.pos[x] = dest_xy(w, e, dx, dy)},
              !.ret = None]

\* An action of a spawner: it puts into the map's live set every monster
\* that waits off the map for the tile (dx, dy) away.
Inserted(w, e, dx, dy) ==
    [w EXCEPT !.entities =
        @ \cup {x \in Monsters : w.pos[x] = dest_xy(w, e, dx, dy)},
              !.ret = None]

\* ai.perform of entity e: one action chosen and performed, or an
\* ImpossibleAction, or an error of another class.
ai_perform(w, e) ==
    CASE w.plan[e].mode = "hostile" -> HostileEnemy(w, e)
      [] w.plan[e].mode = "confused" ->
           BumpAction(w, e, w.plan[e].dx, w.plan[e].dy)
      [] w.plan[e].mode = "inert" -> WaitAction(w, e)
      [] w.plan[e].mode = "refused" ->
           Raise([w EXCEPT !.exc_text = "No path."], "ImpossibleAction")
      [] w.plan[e].mode = "removes" ->
           Removed(w, e, w.plan[e].dx, w.plan[e].dy)
      [] w.plan[e].mode = "inserts" ->
           Inserted(w, e, w.plan[e].dx, w.plan[e].dy)
      [] OTHER -> Raise(w, "RuntimeError")

(***************************************************************************)
(* engine.py                                                               *)
(***************************************************************************)
\* A faulty variant of the death check: the death is logged and the game
\* state left as it was.
check_player_death_KeepsPlaying(w) ==
    IF fighter(Player) /\ is_dead(w, Player)
    THEN add_message(w, Msg("You died!", None, None, 0, "player_die"))
    ELSE w

\* Engine.check_player_death
check_player_death(w) ==
    IF fighter(Player) /\ is_dead(w, Player)
    THEN [add_message(w, Msg("You died!", None, None, 0, "player_die"))
            EXCEPT !.game_state = "dead"]
    ELSE w

RECURSIVE EnemyLoop(_, _)

\* A faulty variant of the loop: the player's death does not end it.
AfterDeathCheck_NoBreak(w, rest) == EnemyLoop(w, rest)

\* Engine.handle_enemy_turns, after the death check that follows a turn.
AfterDeathCheck(w, rest) ==
    IF is_dead(w, Player) THEN w ELSE EnemyLoop(w, rest)

\* A faulty variant of the loop: an exception of an AI ends the phase.
AfterAiTurn_FailureEndsPhase(w, rest) ==
    IF w.exc = "SystemExit" THEN w
    ELSE IF w.exc # None
    THEN [w EXCEPT !.exc = None, !.exc_text = ""]
    ELSE AfterDeathCheck(check_player_death(w), rest)

\* Engine.handle_enemy_turns, after ai.perform returned or raised:
\* SystemExit is no Exception and gets out, every other exception is
\* swallowed and the loop goes on without the death check.
AfterAiTurn(w, rest) ==
    IF w.exc = "SystemExit" THEN w
    ELSE IF w.exc # None
    THEN EnemyLoop([w EXCEPT !.exc = None, !.exc_text = ""], rest)
    ELSE AfterDeathCheck(check_player_death(w), rest)

\* A faulty variant of the loop: an actor gets its turn dead or alive.
EnemyLoop_ActsDead(w, snapshot) ==
    IF snapshot = <<>> THEN w
    ELSE IF /\ Head(snapshot) # Player
            /\ ai(Head(snapshot))
            /\ fighter(Head(snapshot))
    THEN AfterAiTurn(
            ai_perform([w EXCEPT !.ai_turns[Head(snapshot)] = @ + 1],
                       Head(snapshot)),
            Tail(snapshot))
    ELSE EnemyLoop(w, Tail(snapshot))

\* The loop of Engine.handle_enemy_turns over its snapshot of the actors.
EnemyLoop(w, snapshot) ==
    IF snapshot = <<>> THEN w
    ELSE IF /\ Head(snapshot) # Player
            /\ ai(Head(snapshot))
            /\ fighter(Head(snapshot))
            /\ ~ is_dead(w, Head(snapshot))
    THEN AfterAiTurn(
            ai_perform([w EXCEPT !.ai_turns[Head(snapshot)] = @ + 1],
                       Head(snapshot)),
            Tail(snapshot))
    ELSE EnemyLoop(w, Tail(snapshot))

RECURSIVE EnemyLoop_Live(_, _)

\* A faulty variant of the phase: no snapshot is taken, the loop looks each
\* actor up in the live set as it gets to it.
AfterAiTurn_Live(w, k) ==
    IF w.exc = "SystemExit" THEN w
    ELSE IF w.exc # None
    THEN EnemyLoop_Live([w EXCEPT !.exc = None, !.exc_text = ""], k)
    ELSE IF is_dead(w, Player) THEN check_player_death(w)
    ELSE EnemyLoop_Live(w, k)

EnemyLoop_Live(w, k) ==
    IF k > Len(ActorOrder) THEN w
    ELSE IF /\ IsLive(w, ActorOrder[k])
            /\ ActorOrder[k] # Player
            /\ ai(ActorOrder[k])
            /\ fighter(ActorOrder[k])
            /\ ~ is_dead(w, ActorOrder[k])
    THEN AfterAiTurn_Live(
            ai_perform([w EXCEPT !.ai_turns[ActorOrder[k]] = @ + 1],
                       ActorOrder[k]),
            k + 1)
    ELSE EnemyLoop_Live(w, k + 1)

handle_enemy_turns_NoSnapshot(w) == EnemyLoop_Live(w, 1)

\* Engine.handle_enemy_turns
handle_enemy_turns(w) == EnemyLoop(w, actors(w))

\* Engine.update_fov, reached only if the enemy phase raised nothing.
RefreshAfter(w) == IF w.exc # None THEN w ELSE update_fov(w)

\* Engine.process_player_turn: the final death check.
FinishTurn(w) == IF w.exc # None THEN w ELSE check_player_death(w)

\* A faulty variant of the turn: every action counts as a consumed turn, so
\* the enemy phase runs before the death check that ends the turn.
AfterPerform_EnemiesFirst(w) ==
    IF w.exc = "ImpossibleAction"
    THEN add_message([w EXCEPT !.exc = None, !.exc_text = ""],
                     Msg(w.exc_text, None, None, 0, "impossible"))
    ELSE IF w.exc # None THEN w
    ELSE FinishTurn(RefreshAfter(handle_enemy_turns(w)))

\* A faulty variant of the turn: a refused action is reported and the round
\* goes on with the enemy phase and the refresh all the same.
AfterPerform_RoundAfterFailure(w) ==
    IF w.exc = "ImpossibleAction"
    THEN FinishTurn(RefreshAfter(handle_enemy_turns(
            add_message([w EXCEPT !.exc = None, !.exc_text = ""],
                        Msg(w.exc_text, None, None, 0, "impossible")))))
    ELSE IF w.exc # None THEN w
    ELSE FinishTurn(IF Truthy(w.ret)
                    THEN RefreshAfter(handle_enemy_turns(w))
                    ELSE w)

\* A faulty variant of the turn: every exception but SystemExit is caught
\* and reported like a refused action, and the turn ends with its death
\* check.
AfterPerform_CatchesAll(w) ==
    IF w.exc = "SystemExit" THEN w
    ELSE IF w.exc # None
    THEN FinishTurn(add_message([w EXCEPT !.exc = None, !.exc_text = ""],
                                Msg(w.exc_text, None, None, 0, "impossible")))
    ELSE FinishTurn(IF Truthy(w.ret)
                    THEN RefreshAfter(handle_enemy_turns(w))
                    ELSE w)

\* Engine.process_player_turn, after action.perform() returned or raised.
AfterPerform(w) ==
    IF w.exc = "ImpossibleAction"
    THEN add_message([w EXCEPT !.exc = None, !.exc_text = ""],
                     Msg(w.exc_text, None, None, 0, "impossible"))
    ELSE IF w.exc # None THEN w
    ELSE FinishTurn(IF Truthy(w.ret)
                    THEN RefreshAfter(handle_enemy_turns(w))
                    ELSE w)

\* A faulty variant of the turn: a frame without a pending action runs the
\* round all the same.
process_player_turn_IdleRound(w, a) ==
    IF a.kind = "None"
    THEN FinishTurn(RefreshAfter(handle_enemy_turns(w)))
    ELSE AfterPerform(Perform(w, Player, a))

\* Engine.process_player_turn
process_player_turn(w, a) ==
    IF a.kind = "None" THEN w ELSE AfterPerform(Perform(w, Player, a))

\* The fate of the session when process_player_turn lets an exception out:
\* SystemExit ends the program, anything else makes main() drop the engine.
Settle(w) ==
    IF w.exc = None THEN w
    ELSE IF w.exc = "SystemExit" THEN [w EXCEPT !.game_state = "exited"]
    ELSE [w EXCEPT !.game_state = "crashed"]

\* A faulty variant of the event handling: the turn is processed whatever
\* the state of the game and of the player.
handle_events_Unguarded(w, a) == Settle(process_player_turn(w, a))

\* Engine.handle_events, with a the action the handler queued: the turn is
\* processed only in the gameplay state with the player alive.
handle_events(w, a) ==
    IF w.game_state = "playing" /\ ~ is_dead(w, Player)
    THEN Settle(process_player_turn(w, a))
    ELSE w

(***************************************************************************)
(* The state machine.                                                      *)
(***************************************************************************)
World ==
    [pos |-> pos, hp |-> hp, entities |-> entities, items |-> items,
     equipped |-> equipped, parent |-> parent, path |-> path,
     message_log |-> message_log, current_floor |-> current_floor,
     visible |-> visible, explored |-> explored, game_state |-> game_state,
     caps |-> caps, fov_calls |-> fov_calls, ai_turns |-> ai_turns,
     maps_made |-> maps_made,
     plan |-> [m \in Monsters |-> Hostile],
     ret |-> None, exc |-> None, exc_text |-> ""]

Commit(w) ==
    /\ pos' = w.pos
    /\ hp' = w.hp
    /\ entities' = w.entities
    /\ items' = w.items
    /\ equipped' = w.equipped
    /\ parent' = w.parent
    /\ path' = w.path
    /\ message_log' = w.message_log
    /\ current_floor' = w.current_floor
    /\ visible' = w.visible
    /\ explored' = w.explored
    /\ game_state' = w.game_state
    /\ caps' = w.caps
    /\ fov_calls' = w.fov_calls
    /\ ai_turns' = w.ai_turns
    /\ maps_made' = w.maps_made

\* What the player was built with: main.py's plain Entity, or an actor with
\* an inventory and equipment, empty-handed or carrying two weapons.
Kits ==
    {[caps |-> {}, items |-> <<>>, weapon |-> None],
     [caps |-> {"inventory", "equipment"}, items |-> <<>>, weapon |-> None],
     [caps |-> {"inventory", "equipment"}, items |-> <<"dagger", "sword">>,
      weapon |-> None],
     [caps |-> {"inventory", "equipment"}, items |-> <<"dagger", "sword">>,
      weapon |-> "dagger"]}

Carried(kit) == {kit.items[i] : i \in 1 .. Len(kit.items)}

\* Engine.new_game on a freshly built player.
InitWorld(kit) ==
    update_fov(
        [pos |-> StartPos,
         hp |-> [e \in {Player} \cup Monsters |-> max_hp(e)],
         entities |-> AllEntities \ Carried(kit),
         items |-> [e \in {Player} \cup Monsters |->
                      IF e = Player THEN kit.items ELSE <<>>],
         equipped |-> [e \in {Player} \cup Monsters |->
                         [s \in Slots |->
                            IF e = Player /\ s = "weapon"
                            THEN kit.weapon ELSE None]],
         parent |-> [it \in Items |->
                       IF it \in Carried(kit) THEN Player ELSE "map"],
         path |-> [e \in Monsters |-> None],
         message_log |-> <<Msg("Hello and welcome, adventurer, to yet another dungeon!",
                               None, None, 0, "welcome_text")>>,
         current_floor |-> 1,
         visible |-> {},
         explored |-> {},
         game_state |-> "playing",
         caps |-> kit.caps,
         fov_calls |-> 0,
         ai_turns |-> [e \in Monsters |-> 0],
         maps_made |-> 1,
         plan |-> [m \in Monsters |-> Hostile],
         ret |-> None, exc |-> None, exc_text |-> ""])

Holds(w) ==
    /\ pos = w.pos
    /\ hp = w.hp
    /\ entities = w.entities
    /\ items = w.items
    /\ equipped = w.equipped
    /\ parent = w.parent
    /\ path = w.path
    /\ message_log = w.message_log
    /\ current_floor = w.current_floor
    /\ visible = w.visible
    /\ explored = w.explored
    /\ game_state = w.game_state
    /\ caps = w.caps
    /\ fov_calls = w.fov_calls
    /\ ai_turns = w.ai_turns
    /\ maps_made = w.maps_made

Init ==
    \E kit \in Kits :
        /\ Holds(InitWorld(kit))
        /\ pending = NoAction

(***************************************************************************)
(* The inputs: what the input layer may queue.                             *)
(***************************************************************************)
Dirs == {-1, 0, 1}
Targets ==
    {<<2, 0>>, <<2, 1>>, <<1, 2>>, <<1, 0>>, <<0, 2>>, <<2, 2>>, <<3, 0>>}
Radii == {0, 1}
Damages == {-2, 3}

\* The items set.pop() may yield in PickupAction.perform.
PopChoices(w, e) ==
    LET here == get_items_at_location(w, w.pos[e][1], w.pos[e][2])
    IN  IF here = {} THEN {None} ELSE here

\* One call of Engine.handle_events with action a queued.
Running ==
    /\ game_state \in {"playing", "dead"}
    /\ Len(message_log) < MaxLog

Turn(a) ==
    /\ pending' = a
    /\ Commit(handle_events(World, a))

Idle == Running /\ Turn(NoAction)

Wait == Running /\ Turn(Act("Wait", 0, 0, None, 0, 0, 0, 0))

Escape == Running /\ Turn(Act("Escape", 0, 0, None, 0, 0, 0, 0))

Movement ==
    /\ Running
    /\ \E dx \in Dirs, dy \in Dirs :
          Turn(Act("Movement", dx, dy, None, 0, 0, 0, 0))

Melee ==
    /\ Running
    /\ \E dx \in Dirs, dy \in Dirs :
          Turn(Act("Melee", dx, dy, None, 0, 0, 0, 0))

Bump ==
    /\ Running
    /\ \E dx \in Dirs, dy \in Dirs :
          Turn(Act("Bump", dx, dy, None, 0, 0, 0, 0))

Pickup ==
    /\ Running
    /\ \E pick \in PopChoices(World, Player) :
          Turn(Act("Pickup", 0, 0, pick, 0, 0, 0, 0))

UseItem ==
    /\ Running
    /\ \E it \in Items : Turn(Act("UseItem", 0, 0, it, 0, 0, 0, 0))

DropItem ==
    /\ Running
    /\ \E it \in Items : Turn(Act("DropItem", 0, 0, it, 0, 0, 0, 0))

Equip ==
    /\ Running
    /\ \E it \in Items : Turn(Act("Equip", 0, 0, it, 0, 0, 0, 0))

TakeStairs == Running /\ Turn(Act("TakeStairs", 0, 0, None, 0, 0, 0, 0))

AreaRangedAttack ==
    /\ Running
    /\ \E t \in Targets, r \in Radii, d \in Damages :
          Turn(Act("AreaRangedAttack", 0, 0, None, t[1], t[2], r, d))

SingleRangedAttack ==
    /\ Running
    /\ \E t \in Targets, d \in Damages :
          Turn(Act("SingleRangedAttack", 0, 0, None, t[1], t[2], 0, d))

Next ==
    \/ Idle
    \/ Wait
    \/ Escape
    \/ Movement
    \/ Melee
    \/ Bump
    \/ Pickup
    \/ UseItem
    \/ DropItem
    \/ Equip
    \/ TakeStairs
    \/ AreaRangedAttack
    \/ SingleRangedAttack

Spec == Init /\ [][Next]_vars

(***************************************************************************)
(* Rounds: the player's actions together with the enemy phase.  No perform *)
(* of actions.py reports a consumed turn, so process_player_turn never     *)
(* gets to Engine.handle_enemy_turns; here the phase is a step of its own, *)
(* taken when process_player_turn could take it: in the gameplay state     *)
(* with the player alive.  The player can bring the own hit points down    *)
(* with a blast on the own tile.                                           *)
(***************************************************************************)
\* While the game goes on, no step is taken once the log holds this many
\* messages.
MaxRoundLog == 4

\* The damage of the blasts the player may cast on the own tile.
RoundDamages == {28, 30}

\* The main loop goes on; after the player's death every further call of
\* handle_events is admitted.
RoundRunning ==
    \/ game_state = "dead"
    \/ game_state = "playing" /\ Len(message_log) < MaxRoundLog

RoundWait == RoundRunning /\ Turn(Act("Wait", 0, 0, None, 0, 0, 0, 0))

RoundBump ==
    /\ RoundRunning
    /\ \E dx \in Dirs, dy \in Dirs :
          Turn(Act("Bump", dx, dy, None, 0, 0, 0, 0))

RoundBlast ==
    /\ RoundRunning
    /\ \E r \in Radii, d \in RoundDamages :
          Turn(Act("AreaRangedAttack", 0, 0, None, pos[Player][1],
                   pos[Player][2], r, d))

\* One call of Engine.handle_enemy_turns.
EnemyPhase ==
    /\ RoundRunning
    /\ game_state = "playing"
    /\ ~ is_dead(World, Player)
    /\ pending' = Act("EnemyPhase", 0, 0, None, 0, 0, 0, 0)
    /\ Commit(handle_enemy_turns(World))

NextRounds ==
    \/ RoundWait
    \/ RoundBump
    \/ RoundBlast
    \/ EnemyPhase

SpecRounds == Init /\ [][NextRounds]_vars

(***************************************************************************)
(* Enemy phases with every kind of AI turn: each monster of the phase is   *)
(* hostile, inert, confused, or fails with an ImpossibleAction or with an  *)
(* error of another class.                                                 *)
(***************************************************************************)
\* No step is taken once the log holds this many messages.
MaxAiLog == 3

\* No enemy phase is started once a monster has had this many turns.
MaxPhases == 1

AiChoices == {Hostile, Refused, Faulty, AiChoice("confused", -1, 1)}
Plans == [Monsters -> AiChoices]

AiRunning == game_state = "playing" /\ Len(message_log) < MaxAiLog

AiBump ==
    /\ AiRunning
    /\ \E dx \in Dirs, dy \in Dirs :
          Turn(Act("Bump", dx, dy, None, 0, 0, 0, 0))

AiBlast ==
    /\ AiRunning
    /\ \E r \in Radii, d \in RoundDamages :
          Turn(Act("AreaRangedAttack", 0, 0, None, pos[Player][1],
                   pos[Player][2], r, d))

\* The enemy phase as a step: it records what each AI was about to do.
Phase(plan) == [kind |-> "AiPhase", plan |-> plan]

\* One call of Engine.handle_enemy_turns, the AIs following plan.
AiPhase ==
    /\ AiRunning
    /\ ~ is_dead(World, Player)
    /\ \A m \in Monsters : ai_turns[m] < MaxPhases
    /\ \E plan \in Plans :
          /\ pending' = Phase(plan)
          /\ Commit(handle_enemy_turns([World EXCEPT !.plan = plan]))

NextAi ==
    \/ AiBump
    \/ AiBlast
    \/ AiPhase

SpecAi == Init /\ [][NextAi]_vars

(***************************************************************************)
(* Enemy phases during which the map's live set changes: an AI strikes,    *)
(* stumbles against a neighbour, takes entities off the map or puts        *)
(* monsters into it.                                                       *)
(***************************************************************************)
\* No enemy phase is started once a monster has had this many turns.
MaxLivePhases == 2

LiveChoices ==
    {Hostile, AiChoice("confused", -1, 1), AiChoice("removes", -1, 1),
     AiChoice("inserts", -1, 1), AiChoice("removes", 0, -1)}
LivePlans == [Monsters -> LiveChoices]

LiveCanStart ==
    /\ game_state = "playing"
    /\ ~ is_dead(World, Player)
    /\ \A m \in Monsters : ai_turns[m] < MaxLivePhases

\* One call of Engine.handle_enemy_turns, the AIs following plan.
LivePhase ==
    /\ LiveCanStart
    /\ \E plan \in LivePlans :
          /\ pending' = Phase(plan)
          /\ Commit(handle_enemy_turns([World EXCEPT !.plan = plan]))

NextLive ==
    \/ LivePhase

SpecLive == Init /\ [][NextLive]_vars

(***************************************************************************)
(* The field of view: GameMap.compute_fov called from any tile with any    *)
(* radius, Engine.update_fov, the player walking in between, and floors    *)
(* changed and games started anew under it.                                *)
(***************************************************************************)
\* No operation that computes the field of view is called once it has been
\* computed this many times.
MaxFovCalls == 3

FovRadii == {0, 1, 2}

FovCallable == game_state = "playing" /\ fov_calls < MaxFovCalls

\* The player steps onto an open tile.
FovWalk ==
    /\ game_state = "playing"
    /\ \E dx \in Dirs, dy \in Dirs :
          /\ MovementAction(World, Player, dx, dy).pos # pos
          /\ Turn(Act("Movement", dx, dy, None, 0, 0, 0, 0))

UpdateFov ==
    /\ FovCallable
    /\ pending' = Act("UpdateFov", 0, 0, None, 0, 0, 0, 0)
    /\ Commit(update_fov(World))

ComputeFovAt ==
    /\ FovCallable
    /\ \E t \in Tiles, r \in FovRadii :
          /\ pending' = Act("ComputeFov", 0, 0, None, t[1], t[2], r, 0)
          /\ Commit(compute_fov(World, t[1], t[2], r))

FovChangeFloor ==
    /\ FovCallable
    /\ \E going_down \in BOOLEAN :
          /\ pending' = Act(IF going_down THEN "FloorDown" ELSE "FloorUp",
                            0, 0, None, 0, 0, 0, 0)
          /\ Commit(change_floor(World, going_down))

FovNewGame ==
    /\ FovCallable
    /\ pending' = Act("NewGame", 0, 0, None, 0, 0, 0, 0)
    /\ Commit(new_game(World))

NextFov ==
    \/ FovWalk
    \/ UpdateFov
    \/ ComputeFovAt
    \/ FovChangeFloor
    \/ FovNewGame

SpecFov == Init /\ [][NextFov]_vars

(***************************************************************************)
(* Floors the monsters hunt on: the player walks, the monsters get their   *)
(* turns, the player takes the stairs or the engine changes the floor.     *)
(***************************************************************************)
\* No enemy phase is started once a monster has had this many turns.
MaxHunts == 2

\* One call of Engine.handle_enemy_turns, every monster hostile.
Hunt ==
    /\ FovCallable
    /\ ~ is_dead(World, Player)
    /\ \A m \in Monsters : ai_turns[m] < MaxHunts
    /\ pending' = Act("EnemyPhase", 0, 0, None, 0, 0, 0, 0)
    /\ Commit(handle_enemy_turns(World))

\* The player, on the stairs, takes them.
Descend ==
    /\ FovCallable
    /\ pos[Player] = stairs_location
    /\ Turn(Act("TakeStairs", 0, 0, None, 0, 0, 0, 0))

NextFloors ==
    \/ FovWalk
    \/ Hunt
    \/ Descend
    \/ FovChangeFloor

SpecFloors == Init /\ [][NextFloors]_vars

(***************************************************************************)
(* The engine as its callers may use it: the player's turns through        *)
(* handle_events, and new_game and change_floor in both directions called  *)
(* at any time.                                                            *)
(***************************************************************************)
\* No turn is taken and no floor is changed once the log holds this many
\* messages.
MaxEngineLog == 2

\* No map is generated once this many have been.
MaxMaps == 2

EngineRunning ==
    game_state = "playing" /\ Len(message_log) < MaxEngineLog

\* The directions and the targets of the actions queued here: towards the
\* orc, towards the stairs, against the wall; the orc's tile and a tile off
\* the map.
EngineDirs == {<<1, 0>>, <<-1, 0>>, <<0, 1>>}
EngineTargets == {<<2, 0>>, <<3, 0>>}

\* Actions of every kind the input layer may queue in world w.
Inputs(w) ==
    {NoAction, Act("Wait", 0, 0, None, 0, 0, 0, 0),
     Act("Escape", 0, 0, None, 0, 0, 0, 0),
     Act("TakeStairs", 0, 0, None, 0, 0, 0, 0)}
    \cup {Act(k, d[1], d[2], None, 0, 0, 0, 0) :
            k \in {"Movement", "Melee", "Bump"}, d \in EngineDirs}
    \cup {Act("Pickup", 0, 0, pick, 0, 0, 0, 0) :
            pick \in PopChoices(w, Player)}
    \cup {Act(k, 0, 0, it, 0, 0, 0, 0) :
            k \in {"UseItem", "DropItem", "Equip"}, it \in Items}
    \cup {Act("AreaRangedAttack", 0, 0, None, t[1], t[2], 1, 3) :
            t \in EngineTargets}
    \cup {Act("SingleRangedAttack", 0, 0, None, t[1], t[2], 0, 3) :
            t \in EngineTargets}

PlayerTurn ==
    /\ EngineRunning
    /\ \E a \in Inputs(World) : Turn(a)

NewGame ==
    /\ game_state \in {"playing", "dead"}
    /\ maps_made < MaxMaps
    /\ pending' = Act("NewGame", 0, 0, None, 0, 0, 0, 0)
    /\ Commit(new_game(World))

ChangeFloor ==
    /\ EngineRunning
    /\ maps_made < MaxMaps
    /\ \E going_down \in BOOLEAN :
          /\ pending' = Act(IF going_down THEN "FloorDown" ELSE "FloorUp",
                            0, 0, None, 0, 0, 0, 0)
          /\ Commit(change_floor(World, going_down))

NextEngine ==
    \/ PlayerTurn
    \/ NewGame
    \/ ChangeFloor

SpecEngine == Init /\ [][NextEngine]_vars

(***************************************************************************)
(* Vocabulary of the properties.                                           *)
(***************************************************************************)
\* handle_events hands the queued action to process_player_turn.
Processing == game_state = "playing" /\ ~ is_dead(World, Player)

\* The messages a step appended to the log.
NewMessages ==
    SubSeq(message_log', Len(message_log) + 1, Len(message_log'))

\* The log grew by a suffix: what was logged before is still there.
LogExtended ==
    /\ Len(message_log') >= Len(message_log)
    /\ SubSeq(message_log', 1, Len(message_log)) = message_log

LastMessage == message_log[Len(message_log)]

\* The entities that can be asked to act in a direction.
Movers == {e \in entities : blocks_movement(e) /\ fighter(e)}

\* A movement-blocking entity of the live set stands on tile d.
Occupied(d) == \E b \in entities : blocks_movement(b) /\ pos[b] = d

\* The destination of a move by (dx, dy) is closed to entity e.
Closed(e, dx, dy) ==
    LET d == <<pos[e][1] + dx, pos[e][2] + dy>>
    IN  \/ ~ (0 <= d[1] /\ d[1] < width /\ 0 <= d[2] /\ d[2] < height)
        \/ d \in Walls
        \/ Occupied(d)

\* No enemy took a turn and the field of view was not recomputed.
NoTurnConsumed == ai_turns' = ai_turns /\ fov_calls' = fov_calls

(***************************************************************************)
(* C1: a Movement(dx,dy) whose destination is out of bounds, not walkable  *)
(* or held by a movement-blocking entity leaves every position as it was   *)
(* and consumes no turn: no enemy acts and the field of view is not        *)
(* recomputed.  It is stated for the player's queued action and, for every *)
(* entity that can move, for the action performed on the current state.    *)
(***************************************************************************)
C1_RejectedMovement ==
    /\ [][(pending'.kind = "Movement"
             /\ Closed(Player, pending'.dx, pending'.dy))
          => (pos' = pos /\ NoTurnConsumed)]_vars
    /\ [](\A e \in Movers, dx \in Dirs, dy \in Dirs :
            Closed(e, dx, dy)
            => /\ MovementAction(World, e, dx, dy).pos = pos
               /\ MovementAction(World, e, dx, dy).ai_turns = ai_turns
               /\ MovementAction(World, e, dx, dy).fov_calls = fov_calls
               /\ MovementAction(World, e, dx, dy).ret = None)

\* The player has just been refused a move into a tile another entity holds.
C1_Witness ==
    /\ pending.kind = "Movement"
    /\ Occupied(<<pos[Player][1] + pending.dx, pos[Player][2] + pending.dy>>)
    /\ ~ (pending.dx = 0 /\ pending.dy = 0)
    /\ LastMessage = Msg("That way is blocked.", None, None, 0, "impossible")

(***************************************************************************)
(* C2: an action that passes validation consumes a turn: when the queued   *)
(* action is Wait, a Movement into an open tile or a Melee against a       *)
(* blocking entity with a fighter, the same process_player_turn call gives *)
(* every live monster with an AI its turn and then refreshes the field of  *)
(* view once.                                                              *)
(***************************************************************************)
Validated(a) ==
    \/ a.kind = "Wait"
    \/ a.kind = "Movement" /\ ~ Closed(Player, a.dx, a.dy)
    \/ /\ a.kind = "Melee"
       /\ \E b \in entities :
             /\ blocks_movement(b) /\ fighter(b)
             /\ pos[b] = <<pos[Player][1] + a.dx, pos[Player][2] + a.dy>>

C2_ValidatedActionRunsRound ==
    [][(Processing /\ Validated(pending'))
       => /\ \A m \in Monsters :
               (m \in entities /\ hp[m] > 0) => ai_turns'[m] = ai_turns[m] + 1
          /\ fov_calls' = fov_calls + 1]_vars

(***************************************************************************)
(* C3: a Melee or SingleRangedAttack whose computed damage (attacker power *)
(* minus defender defense, resp. damage minus defense) is positive takes   *)
(* exactly that many hit points from the defender, once, leaves every      *)
(* other fighter's hit points alone, and logs one hit message.             *)
(***************************************************************************)
\* The one movement-blocking entity on the tile next to e, or None.
Neighbour(e, dx, dy) ==
    LET d == <<pos[e][1] + dx, pos[e][2] + dy>>
    IN  IF Occupied(d)
        THEN CHOOSE b \in entities : blocks_movement(b) /\ pos[b] = d
        ELSE None

\* The actor of the live set on tile (tx, ty), or None.
Occupant(tx, ty) ==
    IF \E b \in entities : is_actor(b) /\ pos[b] = <<tx, ty>>
    THEN CHOOSE b \in entities : is_actor(b) /\ pos[b] = <<tx, ty>>
    ELSE None

AttackerColor(e) == IF e = Player THEN "player_atk" ELSE "enemy_atk"

\* World r is world w with amount hit points taken from t and messages
\* logged, nothing else touched.
Damaged(w, r, t, amount, messages) ==
    /\ r.hp = [w.hp EXCEPT ![t] = @ - amount]
    /\ r.message_log = w.message_log \o messages
    /\ r.pos = w.pos
    /\ r.entities = w.entities

MeleeHit(e, t) ==
    Msg("{} attacks {} for {} hit points.", e, t,
        power(World, e) - defense(t), AttackerColor(e))

RangedHit(e, t, damage) ==
    Msg("{} fires at {} hitting for {} points.", e, t,
        damage - defense(t), AttackerColor(e))

C3_PositiveDamage ==
    /\ [][(Processing /\ pending'.kind = "Melee"
             /\ Neighbour(Player, pending'.dx, pending'.dy) # None
             /\ fighter(Neighbour(Player, pending'.dx, pending'.dy))
             /\ power(World, Player)
                  - defense(Neighbour(Player, pending'.dx, pending'.dy)) > 0)
          => LET t == Neighbour(Player, pending'.dx, pending'.dy)
             IN  /\ hp' = [hp EXCEPT ![t] = @ - (power(World, Player)
                                                  - defense(t))]
                 /\ LogExtended
                 /\ Head(NewMessages) = MeleeHit(Player, t)
                 /\ \A i \in 2 .. Len(NewMessages) :
                       NewMessages[i].text = "You died!"]_vars
    /\ [][(Processing /\ pending'.kind = "SingleRangedAttack"
             /\ Occupant(pending'.tx, pending'.ty) # None
             /\ fighter(Occupant(pending'.tx, pending'.ty))
             /\ <<pending'.tx, pending'.ty>> \in visible
             /\ pending'.damage
                  - defense(Occupant(pending'.tx, pending'.ty)) > 0)
          => LET t == Occupant(pending'.tx, pending'.ty)
             IN  /\ hp' = [hp EXCEPT ![t] = @ - (pending'.damage
                                                  - defense(t))]
                 /\ LogExtended
                 /\ Head(NewMessages) = RangedHit(Player, t, pending'.damage)
                 /\ \A i \in 2 .. Len(NewMessages) :
                       NewMessages[i].text = "You died!"]_vars
    /\ [](\A e \in Movers, dx \in Dirs, dy \in Dirs :
            LET t == Neighbour(e, dx, dy)
            IN  (t # None /\ fighter(t) /\ power(World, e) - defense(t) > 0)
                => Damaged(World, MeleeAction(World, e, dx, dy), t,
                           power(World, e) - defense(t),
                           <<MeleeHit(e, t)>>))
    /\ [](\A e \in Movers, tg \in Targets, dmg \in Damages :
            LET t == Occupant(tg[1], tg[2])
            IN  (t # None /\ fighter(t) /\ tg \in visible
                   /\ dmg - defense(t) > 0)
                => Damaged(World,
                           SingleRangedAttackAction(World, e, tg[1], tg[2],
                                                    dmg),
                           t, dmg - defense(t), <<RangedHit(e, t, dmg)>>))

\* Scenario A: the unarmed player (power 5) has just hit the orc (defense
\* 2, 10 hit points) once.
C3_Witness ==
    /\ pending.kind = "Melee"
    /\ hp["orc"] = 7
    /\ LastMessage = Msg("{} attacks {} for {} hit points.", Player, "orc",
                         3, "player_atk")

(***************************************************************************)
(* C4: a Melee whose attacker power minus defender defense is zero or      *)
(* negative leaves all hit points unchanged and logs exactly one message,  *)
(* which says that no damage was done.                                     *)
(***************************************************************************)
MeleeMiss(e, t) ==
    Msg("{} attacks {} but does no damage.", e, t, 0, AttackerColor(e))

C4_NoDamage ==
    /\ [][(Processing /\ pending'.kind = "Melee"
             /\ Neighbour(Player, pending'.dx, pending'.dy) # None
             /\ fighter(Neighbour(Player, pending'.dx, pending'.dy))
             /\ power(World, Player)
                  - defense(Neighbour(Player, pending'.dx, pending'.dy)) <= 0)
          => /\ hp' = hp
             /\ LogExtended
             /\ NewMessages =
                  <<MeleeMiss(Player,
                              Neighbour(Player, pending'.dx, pending'.dy))>>]_vars
    /\ [](\A e \in Movers, dx \in Dirs, dy \in Dirs :
            LET t == Neighbour(e, dx, dy)
            IN  (t # None /\ fighter(t) /\ power(World, e) - defense(t) <= 0)
                => Damaged(World, MeleeAction(World, e, dx, dy), t, 0,
                           <<MeleeMiss(e, t)>>))

\* The unarmed player (power 5) has just struck the troll (defense 5).
C4_Witness ==
    /\ pending.kind = "Melee"
    /\ hp = [e \in {Player} \cup Monsters |-> max_hp(e)]
    /\ LastMessage = MeleeMiss(Player, "troll")


(***************************************************************************)
(* C5: Bump(dx,dy) is a pure dispatch.  When a movement-blocking entity    *)
(* stands on the destination tile (the code's blocking_entity, whether or  *)
(* not it can fight) the step has exactly the outcome of Melee(dx,dy) from *)
(* the same state, otherwise exactly that of Movement(dx,dy): same         *)
(* positions, hit points, log and turn accounting.                         *)
(***************************************************************************)
DispatchOf(e, dx, dy) ==
    IF Occupied(<<pos[e][1] + dx, pos[e][2] + dy>>)
    THEN "Melee" ELSE "Movement"

ItemsHere(e) == {i \in entities : is_item(i) /\ pos[i] = pos[e]}

C6_PickupTakesOne ==
    [][(Processing /\ pending'.kind = "Pickup"
          /\ has_inventory(World, Player) /\ ItemsHere(Player) # {})
       => /\ pending'.item \in ItemsHere(Player)
          /\ pos' = pos
          /\ Cardinality(ItemsHere(Player)')
               = Cardinality(ItemsHere(Player)) - 1
          /\ Len(items'[Player]) = Len(items[Player]) + 1
          /\ items'[Player] = Append(items[Player], pending'.item)
          /\ pending'.item \notin entities'
          /\ entities' = entities \ {pending'.item}
          /\ parent'[pending'.item] = Player]_vars

\* The player took one of the two items of the start tile; the other one
\* is still lying there.
C6_Witness ==
    /\ pending.kind = "Pickup"
    /\ LastMessage = Msg("You picked up the {}!", Player, pending.item, 0,
                         "item_pickup")
    /\ parent[pending.item] = Player
    /\ pending.item \notin entities
    /\ Cardinality(ItemsHere(Player)) = 1

(***************************************************************************)
(* C7: a Pickup fails, consuming no turn and changing neither the map's    *)
(* entity set nor any inventory, (a) when no item lies on the actor's tile *)
(* and (b) when the actor has no inventory; each case logs exactly one     *)
(* message and the two messages differ.                                    *)
(***************************************************************************)
NothingHere ==
    Msg("There is nothing here to pick up.", None, None, 0, "impossible")

CannotPickUp(e) ==
    Msg("{} cannot pick things up.", e, None, 0, "impossible")

C7_PickupFails ==
    [][(Processing /\ pending'.kind = "Pickup"
          /\ (ItemsHere(Player) = {} \/ ~ has_inventory(World, Player)))
       => /\ entities' = entities
          /\ items' = items
          /\ parent' = parent
          /\ pos' = pos
          /\ NoTurnConsumed
          /\ LogExtended
          /\ NewMessages = <<IF ItemsHere(Player) = {}
                             THEN NothingHere
                             ELSE CannotPickUp(Player)>>
          /\ NothingHere.text # CannotPickUp(Player).text]_vars

\* Case (b): a player without an inventory stood on items and was refused.
C7_Witness ==
    /\ pending.kind = "Pickup"
    /\ ~ has_inventory(World, Player)
    /\ ItemsHere(Player) # {}
    /\ LastMessage = CannotPickUp(Player)

\* Case (a): the player emptied the tile and then tried once more.
C7_WitnessEmptyTile ==
    /\ pending.kind = "Pickup"
    /\ has_inventory(World, Player)
    /\ ItemsHere(Player) = {}
    /\ LastMessage = NothingHere

(***************************************************************************)
(* C8: where an inventory has a capacity, the number of items it holds     *)
(* never exceeds it.                                                       *)
(***************************************************************************)
C8_WithinCapacity ==
    \A e \in {Player} \cup Monsters : Len(items[e]) <= capacity

(***************************************************************************)
(* C9: items are owned exclusively.  After any sequence of Pickup,         *)
(* DropItem and Equip no item is both in the map's entity set and in an    *)
(* inventory, no item is in two inventories, and no inventory lists an     *)
(* item twice.                                                             *)
(***************************************************************************)
Holders(it) ==
    {e \in {Player} \cup Monsters : InSeq(items[e], it)}

C9_ExclusiveOwnership ==
    /\ \A it \in Items :
          /\ ~ (it \in entities /\ Holders(it) # {})
          /\ Cardinality(Holders(it)) <= 1
    /\ \A e \in {Player} \cup Monsters :
          \A i, j \in 1 .. Len(items[e]) :
             items[e][i] = items[e][j] => i = j

\* An item went from the floor into the inventory and back onto the floor.
C9_Witness ==
    /\ Len(message_log) = 3
    /\ message_log[2].text = "You picked up the {}!"
    /\ message_log[3].text = "You dropped the {}."
    /\ message_log[3].whom = message_log[2].whom
    /\ message_log[3].whom \in entities
    /\ Holders(message_log[3].whom) = {}

(***************************************************************************)
(* C10: Equip(item) performed twice in a row, on an item that was not      *)
(* equipped, returns the actor to its original equipment slots and derived *)
(* stats.  C10_EquipTwiceRestores states this as claimed.  What holds is   *)
(* C10_EquipTwiceUnequips: after the two calls the item is unequipped      *)
(* again; slots and power are the original ones when the item's slot was   *)
(* empty beforehand, and otherwise that slot ends empty, the item it held  *)
(* staying displaced, with all other slots as they were.                   *)
(***************************************************************************)
EquipTwice(w, it) ==
    handle_events(handle_events(w, Act("Equip", 0, 0, it, 0, 0, 0, 0)),
                  Act("Equip", 0, 0, it, 0, 0, 0, 0))

Equippables == {it \in Items : equippable(it)}

Restored(r) ==
    /\ r.equipped = equipped
    /\ power(r, Player) = power(World, Player)

Displaced(r, it) ==
    /\ r.equipped = [equipped EXCEPT ![Player][slot_of(it)] = None]
    /\ power(r, Player)
         = power(World, Player) - power_bonus(equipped[Player][slot_of(it)])

C10_EquipTwiceRestores ==
    \A it \in Equippables :
       (Processing /\ has_equipment(World, Player)
          /\ ~ item_is_equipped(World, Player, it))
       => Restored(EquipTwice(World, it))

C10_EquipTwiceUnequips ==
    \A it \in Equippables :
       (Processing /\ has_equipment(World, Player)
          /\ ~ item_is_equipped(World, Player, it))
       => /\ ~ item_is_equipped(EquipTwice(World, it), Player, it)
          /\ IF equipped[Player][slot_of(it)] = None
             THEN Restored(EquipTwice(World, it))
             ELSE Displaced(EquipTwice(World, it), it)

\* The player equipped the sword and took it off again with the next
\* action.
C10_Witness ==
    /\ pending = Act("Equip", 0, 0, "sword", 0, 0, 0, 0)
    /\ Len(message_log) = 3
    /\ message_log[2] = Msg("You equip the {}.", Player, "sword", 0, "white")
    /\ message_log[3] = Msg("You remove the {}.", Player, "sword", 0, "white")
    /\ equipped[Player]["weapon"] = None


(***************************************************************************)
(* C11: DropItem(item) on an item of the actor's inventory.  An equipped   *)
(* item is unequipped first, silently; afterwards the item is not in the   *)
(* inventory, is in no equipment slot, is in the map's live entity set on  *)
(* the actor's tile with the map as its parent, and exactly one message,   *)
(* the drop message, was logged.                                           *)
(***************************************************************************)
C11_DropItem ==
    [][(Processing /\ pending'.kind = "DropItem"
          /\ has_inventory(World, Player)
          /\ InSeq(items[Player], pending'.item))
       => /\ ~ InSeq(items'[Player], pending'.item)
          /\ Len(items'[Player]) = Len(items[Player]) - 1
          /\ \A s \in Slots :
                equipped'[Player][s]
                  = IF equipped[Player][s] = pending'.item
                    THEN None ELSE equipped[Player][s]
          /\ pending'.item \in entities'
          /\ entities' = entities \cup {pending'.item}
          /\ pos'[Player] = pos[Player]
          /\ pos'[pending'.item] = pos[Player]
          /\ parent'[pending'.item] = "map"
          /\ LogExtended
          /\ NewMessages = <<Msg("You dropped the {}.", Player, pending'.item,
                                 0, "item_drop")>>]_vars

\* The player equipped the dagger and dropped it with the next logged
\* action: it left the weapon slot without a message of its own.
C11_Witness ==
    /\ pending = Act("DropItem", 0, 0, "dagger", 0, 0, 0, 0)
    /\ Len(message_log) = 3
    /\ message_log[2] = Msg("You equip the {}.", Player, "dagger", 0, "white")
    /\ message_log[3] = Msg("You dropped the {}.", Player, "dagger", 0,
                            "item_drop")
    /\ equipped[Player]["weapon"] = None
    /\ "dagger" \in entities
    /\ pos["dagger"] = pos[Player]


(***************************************************************************)
(* C12: TakeStairs by an actor whose tile is not the map's stairs location *)
(* leaves the floor counter unchanged, does not replace the active map,    *)
(* logs the 'no stairs here' message and consumes no turn.                 *)
(***************************************************************************)
NoStairs == Msg("There are no stairs here.", None, None, 0, "impossible")

C12_NoStairsHere ==
    /\ [][(Processing /\ pending'.kind = "TakeStairs"
             /\ pos[Player] # stairs_location)
          => /\ current_floor' = current_floor
             /\ maps_made' = maps_made
             /\ entities' = entities
             /\ pos' = pos
             /\ visible' = visible
             /\ explored' = explored
             /\ LogExtended
             /\ NewMessages = <<NoStairs>>
             /\ NoTurnConsumed]_vars
    /\ [](\A e \in Movers :
            pos[e] # stairs_location
            => TakeStairsAction(World, e) = add_message(World, NoStairs))

\* The player asked for the stairs away from them.
C12_Witness ==
    /\ pending.kind = "TakeStairs"
    /\ pos[Player] # stairs_location
    /\ current_floor = 1
    /\ maps_made = 1
    /\ LastMessage = NoStairs

(***************************************************************************)
(* C13: TakeStairs by an actor standing on the map's stairs location makes *)
(* exactly one floor transition (the floor counter grows by one, the       *)
(* active map is replaced once) and consumes a turn: the monsters of the   *)
(* new floor get their turn and the field of view is refreshed after it,   *)
(* on top of the refresh the transition itself makes.                      *)
(* C13_OneTransition is the part about the transition alone.               *)
(***************************************************************************)
C13_StairsConsumeTurn ==
    [][(Processing /\ pending'.kind = "TakeStairs"
          /\ pos[Player] = stairs_location)
       => /\ current_floor' = current_floor + 1
          /\ maps_made' = maps_made + 1
          /\ \A m \in Monsters :
                (m \in entities' /\ hp'[m] > 0)
                => ai_turns'[m] = ai_turns[m] + 1
          /\ fov_calls' = fov_calls + 2]_vars

C13_OneTransition ==
    [][(Processing /\ pending'.kind = "TakeStairs"
          /\ pos[Player] = stairs_location)
       => /\ current_floor' = current_floor + 1
          /\ maps_made' = maps_made + 1]_vars

(***************************************************************************)
(* C14: AreaRangedAttack(target_xy, radius, damage) fails when target_xy   *)
(* is out of bounds or the target tile is not currently visible: no hit    *)
(* points change, exactly one message is logged, it carries the            *)
(* 'impossible' colour, and no turn is consumed.                           *)
(***************************************************************************)
OutOfBounds(tx, ty) == ~ (0 <= tx /\ tx < width /\ 0 <= ty /\ ty < height)

C14_AreaAttackFails ==
    /\ [][(Processing /\ pending'.kind = "AreaRangedAttack"
             /\ (\/ OutOfBounds(pending'.tx, pending'.ty)
                 \/ <<pending'.tx, pending'.ty>> \notin visible))
          => /\ hp' = hp
             /\ pos' = pos
             /\ entities' = entities
             /\ LogExtended
             /\ Len(NewMessages) = 1
             /\ NewMessages[1].color = "impossible"
             /\ NoTurnConsumed]_vars
    /\ [](\A e \in Movers, tg \in Targets, r \in Radii, d \in Damages :
            (OutOfBounds(tg[1], tg[2]) \/ tg \notin visible)
            => /\ AreaRangedAttackAction(World, e, tg[1], tg[2], r, d).hp = hp
               /\ Len(AreaRangedAttackAction(World, e, tg[1], tg[2], r, d)
                        .message_log) = Len(message_log) + 1)

\* The player aimed a blast at the tile behind the wall, which is in bounds
\* and not in view.
C14_Witness ==
    /\ pending.kind = "AreaRangedAttack"
    /\ ~ OutOfBounds(pending.tx, pending.ty)
    /\ <<pending.tx, pending.ty>> \notin visible
    /\ hp = [e \in {Player} \cup Monsters |-> max_hp(e)]
    /\ LastMessage = Msg("You cannot target an area you cannot see.", None,
                         None, 0, "impossible")

\* The player aimed a blast off the map.
C14_WitnessOutOfBounds ==
    /\ pending.kind = "AreaRangedAttack"
    /\ OutOfBounds(pending.tx, pending.ty)
    /\ LastMessage = Msg("Target is out of bounds.", None, None, 0,
                         "impossible")


(***************************************************************************)
(* C15: on a successful AreaRangedAttack exactly the actors with a fighter *)
(* whose distance to target_xy is at most the radius lose hit points, each *)
(* exactly the flat damage with no defense subtracted and each with its    *)
(* own log line; the caster is among them when within the radius; the hit  *)
(* points of every other actor are unchanged.                              *)
(***************************************************************************)
\* The actors with a fighter within Euclidean distance r of tile (tx, ty).
InBlast(tx, ty, r) ==
    {a \in entities :
        /\ is_actor(a) /\ fighter(a)
        /\ r >= 0
        /\ (pos[a][1] - tx) * (pos[a][1] - tx)
             + (pos[a][2] - ty) * (pos[a][2] - ty) <= r * r}

BlastLine(a, damage) ==
    Msg("The {} is hit for {} damage!", None, a, damage, "enemy_atk")

\* The positions of the new messages that are blast lines.
BlastLines ==
    {i \in 1 .. Len(NewMessages) :
        NewMessages[i].text = "The {} is hit for {} damage!"}

C15_AreaAttackHits ==
    [][(Processing /\ pending'.kind = "AreaRangedAttack"
          /\ ~ OutOfBounds(pending'.tx, pending'.ty)
          /\ <<pending'.tx, pending'.ty>> \in visible)
       => /\ hp' = [a \in DOMAIN hp |->
                      IF a \in InBlast(pending'.tx, pending'.ty,
                                       pending'.radius)
                      THEN hp[a] - pending'.damage ELSE hp[a]]
          /\ LogExtended
          /\ Head(NewMessages).text = "A blast explodes, engulfing the area!"
          /\ Cardinality(BlastLines)
               = Cardinality(InBlast(pending'.tx, pending'.ty,
                                     pending'.radius))
          /\ \A a \in InBlast(pending'.tx, pending'.ty, pending'.radius) :
                \E i \in BlastLines :
                   NewMessages[i] = BlastLine(a, pending'.damage)]_vars

\* The player set off a blast of radius 1 and damage 3 on the own tile: the
\* caster and the orc next to it lost 3 hit points, the troll one diagonal
\* step away and the bat did not.
C15_Witness ==
    /\ pending = Act("AreaRangedAttack", 0, 0, None, 1, 0, 1, 3)
    /\ pos[Player] = <<1, 0>>
    /\ hp = [e \in {Player} \cup Monsters |->
               IF e \in {Player, "orc"} THEN max_hp(e) - 3 ELSE max_hp(e)]
    /\ Len(message_log) = 4
    /\ message_log[3] = BlastLine(Player, 3)
    /\ message_log[4] = BlastLine("orc", 3)

(***************************************************************************)
(* C16: SingleRangedAttack(target_xy, damage) changes no hit points when   *)
(* no actor occupies target_xy, when the occupant has no fighter or when   *)
(* the tile is not visible, in which cases it fails with one 'impossible'  *)
(* message; and when it passes validation but damage minus the target's    *)
(* defense is zero or negative ('no effect').                              *)
(***************************************************************************)
ShotRefused(tx, ty) ==
    \/ Occupant(tx, ty) = None
    \/ ~ fighter(Occupant(tx, ty))
    \/ <<tx, ty>> \notin visible

C16_SingleAttackHarmless ==
    /\ [][(Processing /\ pending'.kind = "SingleRangedAttack"
             /\ ShotRefused(pending'.tx, pending'.ty))
          => /\ hp' = hp
             /\ LogExtended
             /\ Len(NewMessages) = 1
             /\ NewMessages[1].color = "impossible"]_vars
    /\ [][(Processing /\ pending'.kind = "SingleRangedAttack"
             /\ ~ ShotRefused(pending'.tx, pending'.ty)
             /\ pending'.damage
                  - defense(Occupant(pending'.tx, pending'.ty)) <= 0)
          => /\ hp' = hp
             /\ LogExtended
             /\ NewMessages
                  = <<Msg("{} fires at {} but it has no effect.", Player,
                          Occupant(pending'.tx, pending'.ty), 0,
                          "player_atk")>>]_vars
    /\ [](\A e \in Movers, tg \in Targets, d \in Damages :
            (\/ ShotRefused(tg[1], tg[2])
             \/ d - defense(Occupant(tg[1], tg[2])) <= 0)
            => SingleRangedAttackAction(World, e, tg[1], tg[2], d).hp = hp)

\* The player shot at the bat behind the wall: it is there, it can be
\* hurt by 3, and it is not in view.
C16_Witness ==
    /\ pending = Act("SingleRangedAttack", 0, 0, None, 1, 2, 0, 3)
    /\ pos["bat"] = <<1, 2>>
    /\ <<1, 2>> \notin visible
    /\ hp["bat"] = max_hp("bat")
    /\ LastMessage = Msg("You cannot target something you cannot see.",
                         None, None, 0, "impossible")

\* The player shot at remains, which have no fighter.
C16_WitnessNoFighter ==
    /\ pending.kind = "SingleRangedAttack"
    /\ Occupant(pending.tx, pending.ty) = "corpse"
    /\ LastMessage = Msg("You fire, but hit nothing.", None, None, 0,
                         "impossible")

\* The player shot at an empty tile in view.
C16_WitnessNobody ==
    /\ pending.kind = "SingleRangedAttack"
    /\ <<pending.tx, pending.ty>> \in visible
    /\ Occupant(pending.tx, pending.ty) = None
    /\ LastMessage = Msg("You fire, but hit nothing.", None, None, 0,
                         "impossible")

\* The player's shot of 3 did not get through the troll's defense of 5.
C16_WitnessNoEffect ==
    /\ pending.kind = "SingleRangedAttack"
    /\ pending.damage = 3
    /\ hp["troll"] = max_hp("troll")
    /\ LastMessage = Msg("{} fires at {} but it has no effect.", Player,
                         "troll", 0, "player_atk")

(***************************************************************************)
(* C17: failures are reported uniformly.  Whenever a Movement, Melee,      *)
(* Pickup, UseItem, Equip, TakeStairs, AreaRangedAttack or                 *)
(* SingleRangedAttack fails validation, exactly one message is appended to *)
(* the log, it carries the 'impossible' colour, and nothing else changes:  *)
(* positions, hit points, inventories, equipment, the map's entity set and *)
(* the floor counter are as before.                                        *)
(***************************************************************************)
FailsValidation(a) ==
    \/ a.kind = "Movement" /\ Closed(Player, a.dx, a.dy)
    \/ /\ a.kind = "Melee"
       /\ \/ Neighbour(Player, a.dx, a.dy) = None
          \/ ~ fighter(Neighbour(Player, a.dx, a.dy))
    \/ /\ a.kind = "Pickup"
       /\ (ItemsHere(Player) = {} \/ ~ has_inventory(World, Player))
    \/ /\ a.kind = "UseItem"
       /\ (~ consumable(a.item) \/ hp[Player] >= max_hp(Player))
    \/ /\ a.kind = "Equip"
       /\ (~ has_equipment(World, Player) \/ ~ equippable(a.item))
    \/ a.kind = "TakeStairs" /\ pos[Player] # stairs_location
    \/ /\ a.kind = "AreaRangedAttack"
       /\ (OutOfBounds(a.tx, a.ty) \/ <<a.tx, a.ty>> \notin visible)
    \/ a.kind = "SingleRangedAttack" /\ ShotRefused(a.tx, a.ty)

C17_UniformFailure ==
    [][(Processing /\ FailsValidation(pending'))
       => /\ LogExtended
          /\ Len(NewMessages) = 1
          /\ NewMessages[1].color = "impossible"
          /\ pos' = pos
          /\ hp' = hp
          /\ items' = items
          /\ equipped' = equipped
          /\ parent' = parent
          /\ entities' = entities
          /\ current_floor' = current_floor
          /\ maps_made' = maps_made
          /\ game_state' = game_state]_vars

\* The player tried to use the sword, which is no consumable.
C17_Witness ==
    /\ pending = Act("UseItem", 0, 0, "sword", 0, 0, 0, 0)
    /\ LastMessage = Msg("You can't use the {}.", None, "sword", 0,
                         "impossible")

\* The player at full health tried to drink the potion: the refusal comes
\* as an exception that process_player_turn turns into a message.
C17_WitnessRaised ==
    /\ pending = Act("UseItem", 0, 0, "potion", 0, 0, 0, 0)
    /\ hp[Player] = max_hp(Player)
    /\ LastMessage = Msg("Your health is already full.", None, None, 0,
                         "impossible")


(***************************************************************************)
(* C18: in an enemy phase, once an enemy's action leaves the player with   *)
(* no hit points, no later actor of the phase takes a turn and the engine  *)
(* is in the player-dead state.  The actors that took a turn are the       *)
(* eligible ones up to and including the one whose blow was the last       *)
(* straw; with three live monsters of which the second kills the player,   *)
(* the third has not acted.                                                *)
(***************************************************************************)
\* The place of an actor in the order the phase visits them.
Rank(e) == CHOOSE i \in 1 .. Len(ActorOrder) : ActorOrder[i] = e

\* The actors an enemy phase starting now gives a turn.
Eligible ==
    {m \in entities :
        m # Player /\ is_actor(m) /\ ai(m) /\ fighter(m) /\ hp[m] > 0}

\* What a melee blow of k takes from the player.
Blow(k) == power(World, k) - defense(Player)

Died == Msg("You died!", None, None, 0, "player_die")

C18_KillEndsPhase ==
    [][(pending'.kind = "EnemyPhase" /\ hp'[Player] <= 0)
       => /\ game_state' = "dead"
          /\ \E k \in Eligible :
                /\ Blow(k) > 0
                /\ hp'[Player] + Blow(k) > 0
                /\ \A m \in Monsters :
                      ai_turns'[m]
                        = IF m \in Eligible /\ Rank(m) <= Rank(k)
                          THEN ai_turns[m] + 1 ELSE ai_turns[m]]_vars

\* Scenario C: orc, troll and bat alive; the orc struck, the troll's blow
\* killed the player, the bat never had its turn.
C18_Witness ==
    /\ pending.kind = "EnemyPhase"
    /\ game_state = "dead"
    /\ hp[Player] <= 0
    /\ \A m \in Monsters : hp[m] > 0
    /\ ai_turns = [m \in Monsters |-> IF m = "bat" THEN 0 ELSE 1]

(***************************************************************************)
(* C19: the player-dead state is terminal.  Once the death check has found *)
(* the player without hit points, no later call of handle_events performs  *)
(* a player action or an enemy action, whatever is queued: nothing but the *)
(* queued action itself changes any more.                                  *)
(***************************************************************************)
C19_DeadIsTerminal ==
    [][game_state = "dead"
       => UNCHANGED <<pos, hp, entities, items, equipped, parent, path,
                      message_log, current_floor, visible, explored,
                      game_state, caps, fov_calls, ai_turns, maps_made>>]_vars

\* After the player's death a bump into the orc was queued and handled:
\* the orc is unhurt by it and nothing was logged after the death.
C19_Witness ==
    /\ game_state = "dead"
    /\ hp[Player] <= 0
    /\ pending = Act("Bump", 1, 0, None, 0, 0, 0, 0)
    /\ pos["orc"] = <<pos[Player][1] + 1, pos[Player][2]>>
    /\ hp["orc"] = max_hp("orc")
    /\ LastMessage = Died

(***************************************************************************)
(* C20: the death check (a fighter and no hit points left) comes after the *)
(* player's own action, before any enemy takes a turn in that round, and   *)
(* again after every single enemy action.  A player whose own action, such *)
(* as a blast that includes the caster, takes the last hit points is found *)
(* dead in the same call with no enemy having acted; a player killed in    *)
(* the enemy phase is found dead right after the killing blow, nothing     *)
(* being logged after the death message; and no step ends with a player    *)
(* without hit points that is not marked dead.                             *)
(***************************************************************************)
\* The step logged the death exactly once, as its last message.
DeathLoggedLast ==
    /\ LogExtended
    /\ Len(NewMessages) >= 1
    /\ NewMessages[Len(NewMessages)] = Died
    /\ \A i \in 1 .. Len(NewMessages) - 1 : NewMessages[i] # Died

C20_WitnessEnemyPhase ==
    /\ pending.kind = "EnemyPhase"
    /\ hp[Player] <= 0
    /\ game_state = "dead"
    /\ LastMessage = Died


(***************************************************************************)
(* C21: the enemy phase is entered only after a turn-consuming action.     *)
(* When the player's action fails validation, whether the failure is       *)
(* reported by a message or raised as ImpossibleAction and caught, that    *)
(* call of process_player_turn lets no enemy act and does not recompute    *)
(* the field of view, and the engine stays in the gameplay state, ready    *)
(* for the next action.                                                    *)
(***************************************************************************)
C21_FailureShortCircuits ==
    [][(Processing /\ FailsValidation(pending'))
       => /\ ai_turns' = ai_turns
          /\ fov_calls' = fov_calls
          /\ visible' = visible
          /\ explored' = explored
          /\ game_state' = "playing"]_vars

\* The player struck at an empty tile with the orc standing next to it, in
\* view and alive: the refusal was logged and the orc had no turn.
C21_Witness ==
    /\ pending.kind = "Melee"
    /\ Neighbour(Player, pending.dx, pending.dy) = None
    /\ LastMessage.color = "impossible"
    /\ game_state = "playing"
    /\ pos["orc"] = <<pos[Player][1] + 1, pos[Player][2]>>
    /\ pos["orc"] \in visible
    /\ hp["orc"] > 0
    /\ ai_turns["orc"] = 0


(***************************************************************************)
(* C22: in the enemy phase an actor's AI is invoked if and only if, when   *)
(* its turn comes up, the actor is not the player, has an AI, has a        *)
(* fighter and is not dead.  No AI is invoked twice in a phase, and an     *)
(* actor killed earlier in the same phase does not act.  It is stated for  *)
(* every state an enemy phase can start in and every plan of the AIs: the  *)
(* turns the phase gives are those the test grants on the world the loop   *)
(* has produced when it gets to the actor.                                 *)
(***************************************************************************)
\* An enemy phase can start.
CanStartPhase ==
    /\ AiRunning
    /\ ~ is_dead(World, Player)
    /\ \A m \in Monsters : ai_turns[m] < MaxPhases

WithPlan(plan) == [World EXCEPT !.plan = plan]

\* The place of actor m in the snapshot of the phase starting from w.
Place(w, m) == CHOOSE i \in 1 .. Len(actors(w)) : actors(w)[i] = m

\* The world the loop has produced when it gets to actor m.
UpTo(w, m) == EnemyLoop(w, SubSeq(actors(w), 1, Place(w, m) - 1))

\* The loop gets to the next actor of the snapshot: it was not left.
TurnComesUp(b) == ~ is_dead(b, Player) /\ b.exc = None

\* The test of handle_enemy_turns on actor m in world b.
MayAct(b, m) == m # Player /\ ai(m) /\ fighter(m) /\ ~ is_dead(b, m)

TurnsGiven(b, m) == IF TurnComesUp(b) /\ MayAct(b, m) THEN 1 ELSE 0

\* r, the outcome of the phase that starts from w, gave the turns granted.
TurnsAsGranted(w, r) ==
    \A m \in Monsters \cap entities :
        r.ai_turns[m] = ai_turns[m] + TurnsGiven(UpTo(w, m), m)

PhaseFrom(w) == TurnsAsGranted(w, handle_enemy_turns(w))

C22_TurnIffEligible ==
    CanStartPhase => \A plan \in Plans : PhaseFrom(WithPlan(plan))

\* The confused troll struck the bat dead before the bat's turn came up:
\* orc and troll have had their turn, the bat has not, the game goes on.
C22_Witness ==
    /\ pending.kind = "AiPhase"
    /\ pending.plan["troll"] = AiChoice("confused", -1, 1)
    /\ game_state = "playing"
    /\ hp["bat"] <= 0
    /\ ai_turns = [m \in Monsters |-> IF m = "bat" THEN 0 ELSE 1]
    /\ LastMessage = Msg("{} attacks {} for {} hit points.", "troll", "bat",
                         4, "enemy_atk")


(***************************************************************************)
(* C23: a failure during one actor's AI turn never halts the round for the *)
(* others.  An AI that raises ImpossibleAction or an error of another      *)
(* class forfeits its turn: the phase ends as it would have with that      *)
(* actor standing by, no exception leaves it, and when the player is alive *)
(* at its end every monster then alive has had its turn.  It is stated for *)
(* every state an enemy phase can start in and every plan of the AIs.      *)
(***************************************************************************)
\* The plan in which every failing AI stands by instead.
Forfeits(plan) ==
    [m \in Monsters |-> IF plan[m] \in {Refused, Faulty} THEN Inert
                        ELSE plan[m]]

\* Outcome r of a phase is outcome q of the phase among standers-by, and
\* nobody alive at its end was left out.
Forfeited(r, q) ==
    /\ r.exc = None
    /\ [r EXCEPT !.plan = q.plan] = q
    /\ ~ is_dead(r, Player)
       => \A n \in Monsters \cap entities :
             ~ is_dead(r, n) => r.ai_turns[n] = ai_turns[n] + 1

PhaseForfeits(plan) ==
    Forfeited(handle_enemy_turns(WithPlan(plan)),
              handle_enemy_turns(WithPlan(Forfeits(plan))))

C23_FailureForfeitsTurn ==
    CanStartPhase => \A plan \in Plans : PhaseForfeits(plan)

\* The orc's AI broke down, the troll's raised an ImpossibleAction, and the
\* confused bat still had its turn and stumbled against the edge of the map.
C23_Witness ==
    /\ pending.kind = "AiPhase"
    /\ pending.plan["orc"] = Faulty
    /\ pending.plan["troll"] = Refused
    /\ pending.plan["bat"].mode = "confused"
    /\ \A m \in Monsters : hp[m] > 0
    /\ ai_turns = [m \in Monsters |-> 1]
    /\ hp[Player] = PlayerHp
    /\ game_state = "playing"
    /\ LastMessage = Msg("That way is blocked.", None, None, 0, "impossible")


(***************************************************************************)
(* C24: a failure of the programming-error class raised by the player's    *)
(* own action is not caught by process_player_turn.  It reaches the caller *)
(* with the world as the action left it: no enemy phase, no refresh of the *)
(* field of view and no death check run in that call, nothing is logged    *)
(* for it, and the main loop gives the engine up.                          *)
(***************************************************************************)
\* Action a, performed now by the player, raises an error that is neither a
\* refusal nor the request to quit.
Crashes(a) ==
    Perform(World, Player, a).exc
        \notin {None, "ImpossibleAction", "SystemExit"}

C24_ErrorPropagates ==
    [][(Processing /\ Crashes(pending'))
       => /\ process_player_turn(World, pending')
               = Perform(World, Player, pending')
          /\ Commit(Settle(Perform(World, Player, pending')))
          /\ NoTurnConsumed
          /\ message_log' = message_log
          /\ game_state' = "crashed"]_vars

\* The player built without an inventory was asked to drop the sword: the
\* AttributeError went up to the main loop, with the orc next to the player
\* and nothing logged since the welcome.
C24_Witness ==
    /\ pending = Act("DropItem", 0, 0, "sword", 0, 0, 0, 0)
    /\ caps = {}
    /\ game_state = "crashed"
    /\ hp[Player] > 0
    /\ hp["orc"] > 0
    /\ ai_turns = [m \in Monsters |-> 0]
    /\ Len(message_log) = 1


(***************************************************************************)
(* C25: in every reachable state of a map the explored layer contains the  *)
(* visible layer: no tile is visible without being explored, whatever      *)
(* compute_fov calls, moves, floor changes and new games came before.      *)
(***************************************************************************)
C25_VisibleIsExplored == visible \subseteq explored

\* The player walked to the stairs and the view was refreshed from there:
\* what was seen from the start and is hidden from the stairs stays explored.
C25_Witness ==
    /\ pending.kind = "UpdateFov"
    /\ pos[Player] = stairs_location
    /\ visible # explored
    /\ visible # {}


(***************************************************************************)
(* C26: for every compute_fov call on a map, the explored layer afterwards *)
(* is the explored layer before the call united with the new visible       *)
(* layer; as long as the map is not replaced, the explored layer never     *)
(* loses a tile.  A new map starts with nothing explored, so after its     *)
(* first computation the explored layer is the visible one.                *)
(***************************************************************************)
C26_ExploredGrows ==
    /\ [][pending'.kind \in {"ComputeFov", "UpdateFov"}
          => /\ explored' = explored \cup visible'
             /\ maps_made' = maps_made]_vars
    /\ [][maps_made' = maps_made => explored \subseteq explored']_vars
    /\ [][maps_made' # maps_made => explored' = visible']_vars

\* compute_fov was called with radius 0 on a tile away from the player:
\* that tile alone is visible, and what was explored before still is.
C26_Witness ==
    /\ pending.kind = "ComputeFov"
    /\ pending.radius = 0
    /\ visible = {<<pending.tx, pending.ty>>}
    /\ pos[Player] \notin visible
    /\ pos[Player] \in explored
    /\ Cardinality(explored) > 1


(***************************************************************************)
(* C28: the message log is append-only.  As stated, for every engine       *)
(* operation and every action the log before the step is a prefix of the   *)
(* log after it: this fails for new_game, which clears the log.  What      *)
(* holds is that every action and every engine operation other than        *)
(* new_game leaves the logged entries in place and in order, and that      *)
(* new_game leaves a log holding the welcome message alone.                *)
(***************************************************************************)
Welcome ==
    Msg("Hello and welcome, adventurer, to yet another dungeon!", None, None,
        0, "welcome_text")

C28_AppendOnly == [][LogExtended]_vars

C28_AppendOnlyWithinGame ==
    [][IF pending'.kind = "NewGame"
       THEN message_log' = <<Welcome>>
       ELSE LogExtended]_vars

\* A new game was started after the player's blast had hurt the player:
\* the hit points tell of it, the log does not any more.
C28_Witness ==
    /\ pending.kind = "NewGame"
    /\ hp[Player] < PlayerHp
    /\ message_log = <<Welcome>>


(***************************************************************************)
(* C29: the floor counter is at least 1 in every reachable state, whatever *)
(* the sequence of new_game and change_floor calls: going down adds one,   *)
(* going up takes one away but stops at 1, and a new game starts at 1.     *)
(***************************************************************************)
FloorStep ==
    CASE pending'.kind = "FloorDown" -> current_floor' = current_floor + 1
      [] pending'.kind = "FloorUp" ->
            current_floor' = IF current_floor = 1 THEN 1 ELSE current_floor - 1
      [] pending'.kind = "NewGame" -> current_floor' = 1
      [] OTHER -> current_floor' = current_floor

C29_FloorAtLeastOne ==
    /\ [](current_floor >= 1)
    /\ [][FloorStep]_vars

\* Going up from the first floor, as the second change of floor: the
\* counter stayed at 1.
C29_Witness ==
    /\ pending.kind = "FloorUp"
    /\ current_floor = 1
    /\ maps_made >= 2


(***************************************************************************)
(* C30: when the input layer has produced no pending action,               *)
(* process_player_turn changes nothing: no action is performed, no enemy   *)
(* acts, the view is not recomputed, the log is unchanged and no death     *)
(* check message is produced.                                              *)
(***************************************************************************)
EngineState ==
    <<pos, hp, entities, items, equipped, parent, path, message_log,
      current_floor, visible, explored, game_state, caps, fov_calls,
      ai_turns, maps_made>>

C30_NoActionNoChange ==
    /\ [](process_player_turn(World, NoAction) = World)
    /\ [][pending'.kind = "None" => UNCHANGED EngineState]_vars

\* A frame without an action, after an earlier action was logged and while
\* a monster that could have acted stands next to the player.
C30_Witness ==
    /\ pending = NoAction
    /\ game_state = "playing"
    /\ Len(message_log) >= 2
    /\ \E m \in Monsters :
          /\ ~ is_dead(World, m)
          /\ m \in entities
          /\ distance_le(World, m, pos[Player][1], pos[Player][2], 1)


(***************************************************************************)
(* C31: the enemy phase iterates a snapshot of the actors taken at its     *)
(* start.  A monster put into the live set during the phase takes no turn  *)
(* in that round, and a member of the snapshot gets exactly one turn if    *)
(* the test grants it when the loop gets to it, whatever was taken off the *)
(* map or killed in the meantime, and none otherwise.  It is stated for    *)
(* every state an enemy phase can start in and every plan of the AIs.      *)
(***************************************************************************)
\* r, the outcome of the phase that starts from w, gave its turns to the
\* members of the snapshot and to them alone.
TurnsToSnapshot(w, r) ==
    \A m \in Monsters :
        r.ai_turns[m] =
            IF IsLive(w, m) THEN ai_turns[m] + TurnsGiven(UpTo(w, m), m)
            ELSE ai_turns[m]

SnapshotPhase(w) == TurnsToSnapshot(w, handle_enemy_turns(w))

C31_SnapshotIterated ==
    LiveCanStart => \A plan \in LivePlans : SnapshotPhase(WithPlan(plan))

\* The bat was off the map when the phase started and the troll put it
\* back: alive and on the map, it has not had the turn the others had.
C31_Witness ==
    /\ pending.kind = "AiPhase"
    /\ pending.plan["troll"] = AiChoice("inserts", -1, 1)
    /\ game_state = "playing"
    /\ "bat" \in entities
    /\ hp["bat"] > 0
    /\ ai_turns = [m \in Monsters |-> IF m = "bat" THEN 1 ELSE 2]

\* The troll took the bat off the map before the bat's turn came up: the
\* bat, a member of the snapshot, had its turn all the same.
C31_WitnessRemoved ==
    /\ pending.kind = "AiPhase"
    /\ pending.plan["troll"] = AiChoice("removes", -1, 1)
    /\ game_state = "playing"
    /\ "bat" \notin entities
    /\ ai_turns = [m \in Monsters |-> 1]


(***************************************************************************)
(* C32: the field of view is recomputed exactly once per round, after the  *)
(* enemy phase: for every turn-consuming action of the player (a Wait, a   *)
(* Movement into an open tile, a Melee against a fighter, a TakeStairs on  *)
(* the stairs) compute_fov is invoked exactly one time during that         *)
(* process_player_turn call.                                               *)
(***************************************************************************)
StairsTaken(a) == a.kind = "TakeStairs" /\ pos[Player] = stairs_location

C32_FovOncePerRound ==
    [][(Processing /\ (Validated(pending') \/ StairsTaken(pending')))
       => fov_calls' = fov_calls + 1]_vars


(***************************************************************************)
(* C33: a floor transition invalidates cached pathfinding and refreshes    *)
(* visibility.  After change_floor, called by the engine or through the    *)
(* stairs, every actor of the floor that has an AI has no cached path, the *)
(* active map is a newly generated one, and visible is the view computed   *)
(* on it from the player's position.                                       *)
(***************************************************************************)
FloorChanged ==
    \/ pending'.kind \in {"FloorDown", "FloorUp"}
    \/ Processing /\ StairsTaken(pending')

C33_FloorChangeResets ==
    [][FloorChanged
       => /\ \A m \in entities' : (is_actor(m) /\ ai(m)) => path'[m] = None
          /\ maps_made' = maps_made + 1
          /\ pos'[Player] = StartPos[Player]
          /\ visible' = ComputeFov(pos'[Player][1], pos'[Player][2],
                                   FOV_RADIUS)
          /\ explored' = visible']_vars

\* The player took the stairs of the first floor after the orc had had one
\* turn without hurting the player: the orc had then stepped towards the
\* player, who stood on the stairs, along a path of which nothing is left.
C33_Witness ==
    /\ pending.kind = "TakeStairs"
    /\ maps_made = 2
    /\ ai_turns["orc"] = 1
    /\ hp[Player] = PlayerHp
    /\ \A m \in Monsters : path[m] = None


(***************************************************************************)
(* C34: a successful Movement moves by the exact delta and nothing else.   *)
(* When the destination is in bounds, walkable and free of blocking        *)
(* entities, the mover's position becomes (x+dx, y+dy), and every other    *)
(* entity's position, every entity's hit points and the map's live entity  *)
(* set are unchanged.  It is stated for the player's queued action and,    *)
(* for every entity that can move, for the action performed on the         *)
(* current state.                                                          *)
(***************************************************************************)
\* World r is the current one but for entity e, moved by (dx, dy).
MovedBy(r, e, dx, dy) ==
    /\ r.pos = [pos EXCEPT ![e] = <<pos[e][1] + dx, pos[e][2] + dy>>]
    /\ r.hp = hp
    /\ r.entities = entities

C34_MovementByDelta ==
    /\ [][(Processing /\ pending'.kind = "Movement"
             /\ ~ Closed(Player, pending'.dx, pending'.dy))
          => /\ pos' = [pos EXCEPT
                          ![Player] = <<pos[Player][1] + pending'.dx,
                                        pos[Player][2] + pending'.dy>>]
             /\ hp' = hp
             /\ entities' = entities
             /\ message_log' = message_log]_vars
    /\ [](\A e \in Movers, dx \in Dirs, dy \in Dirs :
            ~ Closed(e, dx, dy)
            => MovedBy(MovementAction(World, e, dx, dy), e, dx, dy))

\* The player has stepped from the start onto the stairs, one tile to the
\* left, past nobody.
C34_Witness ==
    /\ pending.kind = "Movement"
    /\ pending.dx = -1 /\ pending.dy = 0
    /\ pos[Player] = <<0, 0>>
    /\ \A e \in AllEntities \ ({Player} \cup Items) : pos[e] = StartPos[e]
    /\ maps_made = 1


(***************************************************************************)
(* C35: the player's death is reported exactly once.  In any run the death *)
(* transition is made once and exactly one 'You died!' message is in the   *)
(* log from then on, also when an enemy kills the player during the enemy  *)
(* phase; before the death the log holds none.                             *)
(***************************************************************************)
\* The places of the log that report the death.
DeathReports == {i \in 1 .. Len(message_log) : message_log[i] = Died}

Separated(w) ==
    \A a \in w.entities :
        blocks_movement(a)
        => /\ in_bounds(w.pos[a][1], w.pos[a][2])
           /\ walkable(w.pos[a][1], w.pos[a][2])
           /\ \A b \in w.entities \ {a} :
                 blocks_movement(b) => w.pos[b] # w.pos[a]

C36_BlockersApart ==
    /\ Separated(World)
    /\ \A e \in Movers, dx \in Dirs, dy \in Dirs :
          /\ Separated(MovementAction(World, e, dx, dy))
          /\ Separated(BumpAction(World, e, dx, dy))
          /\ Separated(MeleeAction(World, e, dx, dy))
    /\ \A e \in Movers :
          /\ \A pick \in PopChoices(World, e) :
                Separated(PickupAction(World, e, pick))
          /\ \A it \in Items :
                InSeq(items[e], it)
                => Separated(DropItemAction(World, e, it))

\* The player has stepped aside onto the stairs and the orc, hunting, has
\* stepped onto the tile the player left; the troll, which made for the
\* same tile after the orc, was turned back.
C36_Witness ==
    /\ pending.kind = "EnemyPhase"
    /\ pos[Player] = <<0, 0>>
    /\ pos["orc"] = <<1, 0>>
    /\ pos["troll"] = StartPos["troll"]
    /\ ai_turns["troll"] = 1
    /\ hp["troll"] > 0
    /\ path["troll"] = "cached"


(***************************************************************************)
(* C37: no attack action ever raises hit points.  For every Melee,         *)
(* SingleRangedAttack and AreaRangedAttack, whatever the power, the        *)
(* defense and the damage (zero and negative damage included), every       *)
(* actor's hit points after the action are at most what they were before.  *)
(***************************************************************************)
C37_AttackNeverHeals ==
    [][pending'.kind \in {"Melee", "SingleRangedAttack", "AreaRangedAttack"}
       => \A e \in DOMAIN hp : hp'[e] <= hp[e]]_vars


(***************************************************************************)
(* C38: a melee attack never damages its own attacker.  For every          *)
(* Melee(dx,dy) or Bump(dx,dy) performed by a blocking actor, dx = dy = 0  *)
(* included, the attacker's own hit points are unchanged by that action.   *)
(***************************************************************************)
C38_AttackerUnharmed ==
    [][pending'.kind \in {"Melee", "Bump"} => hp'[Player] = hp[Player]]_vars

====
